---- MODULE Spec2Model ----
(***************************************************************************)
(* Adaptive interview engine (AdaptiveInterviewEngine), its question bank  *)
(* (QuestionBank), the integrity monitor (IntegrityMonitor) and the audit  *)
(* logger (AuditLogger).                                                   *)
(*                                                                         *)
(* Conventions.                                                            *)
(*  - A question is referred to by its position in the bank's dictionary   *)
(*    (insertion order); NoQuestion stands for Python's None.              *)
(*  - Answer scores are whole points.  A mean is never stored: two means   *)
(*    are compared by cross-multiplication, so the comparison is exact.    *)
(*  - Integrity scores are stored in thirds of a point (IntegrityScale),   *)
(*    because the per-answer overall score is the mean of three component  *)
(*    scores; 300 stands for 100.0.                                        *)
(*  - An answer text is an input.  What the text-analysis helpers read off *)
(*    it (word count, marker words, similarity to the reference answer)    *)
(*    is carried as fields of the input record; the rubrics and the        *)
(*    monitor's arithmetic are computed from those fields as in the code.  *)
(*  - An exception is a call that ends with pc = "raised".                 *)
(***************************************************************************)
EXTENDS Integers, Sequences, FiniteSets, TLC

VARIABLES
    questions,        \* QuestionBank.questions, in insertion order
    active_sessions,  \* keys of AdaptiveInterviewEngine.active_sessions
    session_data,     \* the session_data / InterviewSession objects, by session id;
                      \* of an ended session, which the engine no longer
                      \* references, only the is_active flag is kept
    monitor_data,     \* IntegrityMonitor.session_data (a dictionary)
    session_logs,     \* AuditLogger.session_logs (a dictionary)
    next_id,          \* number of session ids handed out so far (uuid4 is fresh)
    timed_out,        \* sessions whose age exceeds session_timeout (the clock)
    calls,            \* submit_answer calls in flight, by thread
    last_result       \* what the last finished API call returned or raised

vars == <<questions, active_sessions, session_data, monitor_data, session_logs,
          next_id, timed_out, calls, last_result>>

----------------------------------------------------------------------------
(* Bounds of the model *)

MaxSessions == 2
MaxAnswers == 5
MaxThreads == 2
MaxCalls == 3
MaxExperience == 12
MaxCatalog == 2

(* Program constants *)

max_questions_per_session == 15
min_questions_per_session == 5
difficulty_step_up == 1
difficulty_step_down == 1
IntegrityScale == 3

NoQuestion == 0
BadTime == -1       \* a time_taken that is no number (JSON null or a string)

Ids == 1..MaxSessions
Threads == 1..MaxThreads

----------------------------------------------------------------------------
(* Sequence helpers *)

RECURSIVE SumSeq(_)
SumSeq(s) == IF s = <<>> THEN 0 ELSE Head(s) + SumSeq(Tail(s))

LastN(s, n) == IF Len(s) <= n THEN s ELSE SubSeq(s, Len(s) - n + 1, Len(s))

Range(s) == {s[i] : i \in DOMAIN s}

Max2(a, b) == IF a >= b THEN a ELSE b
Min2(a, b) == IF a <= b THEN a ELSE b
Abs(a) == IF a >= 0 THEN a ELSE 0 - a

Put(f, k, v) == [x \in DOMAIN f \cup {k} |-> IF x = k THEN v ELSE f[x]]
Drop(f, k) == [x \in DOMAIN f \ {k} |-> f[x]]

----------------------------------------------------------------------------
(* data_models.py *)

DifficultyLevel == {"beginner", "intermediate", "advanced", "expert"}
QuestionType == {"multiple_choice", "coding", "conceptual", "practical"}

(* question_bank.py: create_default_questions.  complexity is what          *)
(* IntegrityMonitor._estimate_question_complexity returns for the text;     *)
(* expected_answer tells whether the question has one.                      *)
Q(id, cat, ty, diff, exp, cx) ==
    [question_id |-> id, category |-> cat, type |-> ty, difficulty |-> diff,
     expected_answer |-> exp, complexity |-> cx]

DefaultQuestions == <<
    Q(1,  "data_science_fundamentals",   "conceptual", "beginner",     TRUE,  2),
    Q(2,  "data_science_fundamentals",   "coding",     "intermediate", FALSE, 1),
    Q(3,  "statistics_probability",      "conceptual", "intermediate", TRUE,  2),
    Q(4,  "statistics_probability",      "practical",  "intermediate", TRUE,  1),
    Q(5,  "machine_learning",            "conceptual", "intermediate", TRUE,  2),
    Q(6,  "machine_learning",            "coding",     "advanced",     FALSE, 4),
    Q(7,  "deep_learning",               "conceptual", "advanced",     TRUE,  5),
    Q(8,  "deep_learning",               "coding",     "expert",       FALSE, 4),
    Q(9,  "natural_language_processing", "conceptual", "intermediate", TRUE,  3),
    Q(10, "python_programming",          "coding",     "intermediate", FALSE, 1),
    Q(11, "agentic_ai_systems",          "conceptual", "advanced",     TRUE,  5),
    Q(12, "agentic_ai_systems",          "coding",     "expert",       FALSE, 4),
    Q(13, "prompt_engineering",          "conceptual", "intermediate", TRUE,  2),
    Q(14, "prompt_engineering",          "practical",  "advanced",     TRUE,  4),
    Q(15, "llm_fundamentals",            "conceptual", "intermediate", TRUE,  1),
    Q(16, "multi_agent_coordination",    "conceptual", "advanced",     TRUE,  3),
    Q(17, "ai_workflow_automation",      "practical",  "expert",       TRUE,  4),
    Q(18, "ethics_ai_safety",            "conceptual", "intermediate", TRUE,  4) >>

(* A question bank file that holds the empty list loads as an empty bank. *)
EmptyBank == <<>>

(* A question bank file that holds one question, of a category that is     *)
(* not among the default categories.                                       *)
OneQuestionBank == << Q(1, "ethics_ai_safety", "conceptual", "expert", TRUE, 4) >>

Question(qid) == questions[qid]

(* question_bank.py: the two catalog queries, as lists of question ids *)
get_questions_by_category(category, difficulty) ==
    SelectSeq([i \in 1..Len(questions) |-> i],
              LAMBDA i : /\ questions[i].category = category
                         /\ (difficulty = "any" \/ questions[i].difficulty = difficulty))

get_questions_by_difficulty(difficulty) ==
    SelectSeq([i \in 1..Len(questions) |-> i],
              LAMBDA i : questions[i].difficulty = difficulty)


DifficultyOrder == <<"beginner", "intermediate", "advanced", "expert">>

(* question_bank.py: get_balanced_question_set.  For each target category  *)
(* in turn and each difficulty in turn, the first question of that          *)
(* category and difficulty is appended while fewer than count are selected; *)
(* the list is then filled from the bank with questions not yet selected.   *)
RECURSIVE PickDifficulties(_, _, _, _)
PickDifficulties(selected, category, diffs, count) ==
    IF diffs = <<>> THEN selected
    ELSE LET diff_questions == get_questions_by_category(category, Head(diffs))
             picked == IF diff_questions # <<>> /\ Len(selected) < count
                       THEN Append(selected, diff_questions[1])
                       ELSE selected
         IN  PickDifficulties(picked, category, Tail(diffs), count)

RECURSIVE PickCategories(_, _, _)
PickCategories(selected, target_categories, count) ==
    IF target_categories = <<>> THEN selected
    ELSE LET category == Head(target_categories)
             picked == IF get_questions_by_category(category, "any") # <<>>
                       THEN PickDifficulties(selected, category, DifficultyOrder, count)
                       ELSE selected
         IN  PickCategories(picked, Tail(target_categories), count)

FillNothing(selected, count) == selected

RECURSIVE FillRemaining(_, _)
FillRemaining(selected, count) ==
    IF Len(selected) >= count THEN selected
    ELSE LET remaining_questions ==
                 SelectSeq([i \in 1..Len(questions) |-> i],
                           LAMBDA i : i \notin Range(selected))
         IN  IF remaining_questions # <<>>
             THEN FillRemaining(Append(selected, remaining_questions[1]), count)
             ELSE selected

get_balanced_question_set(count, target_categories) ==
    LET selected_questions ==
            FillRemaining(PickCategories(<<>>, target_categories, count), count)
    IN  SubSeq(selected_questions, 1, Min2(count, Len(selected_questions)))

----------------------------------------------------------------------------
(* adaptive_interview.py: initial question set *)

DefaultCategories ==
    <<"data_science_fundamentals", "machine_learning", "python_programming",
      "agentic_ai_systems", "prompt_engineering">>

_generate_initial_question_set(target_categories) ==
    get_balanced_question_set(
        min_questions_per_session,
        IF target_categories = <<>> THEN DefaultCategories ELSE target_categories)

----------------------------------------------------------------------------
(* The answer texts of the model, with what the code's string tests read   *)
(* off each of them (the values are those the code computes for three      *)
(* sample texts: "idk"; a 61-word, 5-line answer with a function, a         *)
(* comment and step words; a 259-word, 9-line answer with every marker).    *)
(*   words        len(text.split())                                         *)
(*   similarity   100 * NLPProcessor.calculate_semantic_similarity          *)
(*   typed        the words of the text a keyword can be found in, as       *)
(*                they are typed (answers to multiple choice questions)     *)
(*   code         marker groups found by _evaluate_coding_answer            *)
(*   practical    marker groups found by _evaluate_practical_answer         *)
(*   text_score, text_flags   result of _analyze_text_integrity             *)
(*   quality      100 * _assess_answer_quality                              *)
(*   style        100 * _analyze_writing_style_consistency against the      *)
(*                earlier answers (an attribute of the text in this model)  *)
(*   form         the characters of the text, as far as lower() and         *)
(*                strip() can tell two texts apart: the words in lower      *)
(*                case, the casing of the letters, whether white space      *)
(*                leads or trails the text, whether a gap between two       *)
(*                words holds more than one blank                           *)
(* fair_cased is the fair text with other capitals and a blank before and   *)
(* after it; fair_spaced is the fair text with two blanks between its       *)
(* first two words.  The code computes the same features for them.          *)
(*   missing      the text is None (JSON null in the request body): every   *)
(*                string method called on it raises AttributeError          *)
TextFeatures ==
    [none |->
        [missing |-> TRUE,
         text_score |-> 0, text_flags |-> <<"copy_paste_empty_answer">>,
         quality |-> 0],
     poor |->
        [missing |-> FALSE, words |-> 1, similarity |-> 20, blank |-> FALSE,
         code |-> {}, practical |-> {},
         text_score |-> 10,
         text_flags |-> <<"copy_paste_detected", "copy_paste_detected",
                          "copy_paste_detected", "copy_paste_too_short">>,
         quality |-> 0, style |-> 40,
         form |-> [words |-> "idk", casing |-> "lower", padded |-> FALSE,
                   wide |-> FALSE]],
     fair |->
        [missing |-> FALSE, words |-> 61, similarity |-> 70, blank |-> FALSE,
         code |-> {"structure", "python_keyword", "ml_keyword", "branching", "comment"},
         practical |-> {"structured", "analytical", "two_technical_terms", "example"},
         text_score |-> 60,
         text_flags |-> <<"formatting_anomalies_detected",
                          "formatting_anomalies_detected">>,
         quality |-> 50, style |-> 90,
         form |-> [words |-> "first i would", casing |-> "sentence",
                   padded |-> FALSE, wide |-> FALSE]],
     fair_cased |->
        [missing |-> FALSE, words |-> 61, similarity |-> 70, blank |-> FALSE,
         code |-> {"structure", "python_keyword", "ml_keyword", "branching", "comment"},
         practical |-> {"structured", "analytical", "two_technical_terms", "example"},
         text_score |-> 60,
         text_flags |-> <<"formatting_anomalies_detected",
                          "formatting_anomalies_detected">>,
         quality |-> 50, style |-> 90,
         form |-> [words |-> "first i would", casing |-> "mixed",
                   padded |-> TRUE, wide |-> FALSE]],
     fair_spaced |->
        [missing |-> FALSE, words |-> 61, similarity |-> 70, blank |-> FALSE,
         code |-> {"structure", "python_keyword", "ml_keyword", "branching", "comment"},
         practical |-> {"structured", "analytical", "two_technical_terms", "example"},
         text_score |-> 60,
         text_flags |-> <<"formatting_anomalies_detected",
                          "formatting_anomalies_detected">>,
         quality |-> 50, style |-> 90,
         form |-> [words |-> "first i would", casing |-> "sentence",
                   padded |-> FALSE, wide |-> TRUE]],
     strong |->
        [missing |-> FALSE, words |-> 259, similarity |-> 95, blank |-> FALSE,
         code |-> {"structure", "python_keyword", "ml_keyword", "branching",
                   "comment", "over_5_lines"},
         practical |-> {"structured", "analytical", "two_technical_terms",
                        "example", "conclusion"},
         text_score |-> 40,
         text_flags |-> <<"repetition_detected", "formatting_anomalies_detected",
                          "formatting_anomalies_detected">>,
         quality |-> 90, style |-> 75,
         form |-> [words |-> "first we analyze", casing |-> "sentence",
                   padded |-> FALSE, wide |-> FALSE]],
     choice_blank  |-> [missing |-> FALSE, typed |-> {}],
     choice_python |-> [missing |-> FALSE, typed |-> {"Python"}],
     choice_two    |-> [missing |-> FALSE, typed |-> {"Python", "pandas"}],
     choice_three  |-> [missing |-> FALSE, typed |-> {"python", "pandas", "NumPy"}]]

(* str.lower: every letter in lower case; str.strip: leading and trailing  *)
(* white space removed.  Neither touches the white space inside the text.  *)
lower(form) == [form EXCEPT !.casing = "lower"]
strip(form) == [form EXCEPT !.padded = FALSE]

Text(a) == TextFeatures[a.answer_text]

(* adaptive_interview.py: the per-type rubrics.  a is the submitted answer: *)
(* a.answer_text names the text, a.time_taken is the reported seconds.      *)
(* A rubric returns its score and its feedback string; of the feedback the  *)
(* model keeps the leading words, which tell the branches apart.            *)

(* Every rubric calls a string method on answer_text outside any try block  *)
(* of its own (lower, strip, split), so it raises when the text is None.    *)
RubricRaises(a, q) == Text(a).missing

(* str.lower and str.strip on the words and keywords of multiple choice    *)
(* questions                                                               *)
LowerItem(item) ==
    CASE item = "Python"   -> "python"
      [] item = " Pandas " -> " pandas "
      [] item = "NumPy"    -> "numpy"
      [] OTHER             -> item

StripItem(item) ==
    CASE item = " Pandas " -> "Pandas"
      [] item = " pandas " -> "pandas"
      [] OTHER             -> item

KeywordFoundAsTyped(item, a) == StripItem(item) \in Text(a).typed \cup {""}

(* keyword.strip() in answer_text, for an item of                          *)
(* expected_answer.lower().split(',') and answer_text =                    *)
(* answer.answer_text.lower(); the empty keyword is in every text          *)
KeywordFound(item, a) ==
    StripItem(LowerItem(item)) \in {LowerItem(word) : word \in Text(a).typed} \cup {""}

MultipleChoiceFeedback(num, den) ==
    IF num >= 80 * den THEN "Excellent answer!"
    ELSE IF num >= 60 * den THEN "Good answer with room for improvement."
    ELSE "Answer needs improvement. Review the key concepts."

(* score = (matches / len(expected_keywords)) * 100, or 0 for a question   *)
(* with no expected answer (q.expected_items is expected_answer split at    *)
(* its commas, empty for None and for the empty string).  exact is the      *)
(* score as the fraction num / den; score is its whole points.              *)
MultipleChoiceResult(num, den) ==
    [score |-> num \div den, exact |-> [num |-> num, den |-> den],
     feedback |-> MultipleChoiceFeedback(num, den)]

_evaluate_multiple_choice(a, q) ==
    IF q.expected_items = <<>> THEN MultipleChoiceResult(0, 1)
    ELSE MultipleChoiceResult(
             100 * Cardinality({i \in 1..Len(q.expected_items) :
                                   KeywordFound(q.expected_items[i], a)}),
             Len(q.expected_items))

_evaluate_coding_answer(a, q) ==
    LET code == Text(a).code IN
    IF Text(a).blank THEN [score |-> 0, feedback |-> "No code provided."]
    ELSE [score |-> Min2(100,
           (IF "structure" \in code THEN 30 ELSE 0)
         + (IF q.category = "python_programming" /\ "python_keyword" \in code
              THEN 20
            ELSE IF q.category = "machine_learning" /\ "ml_keyword" \in code
              THEN 25 ELSE 0)
         + (IF "branching" \in code THEN 15 ELSE 0)
         + (IF "comment" \in code THEN 10 ELSE 0)
         + (IF "over_5_lines" \in code THEN 10 ELSE 0)),
          feedback |->
             IF \/ code \cap {"structure", "branching", "comment", "over_5_lines"} # {}
                \/ q.category = "python_programming" /\ "python_keyword" \in code
                \/ q.category = "machine_learning" /\ "ml_keyword" \in code
             THEN "Code evaluation" ELSE "Basic code structure"]

ConceptualFeedback(score) ==
    IF score >= 80 THEN "Excellent understanding demonstrated"
    ELSE IF score >= 60 THEN "Good understanding with some gaps"
    ELSE IF score >= 40 THEN "Partial understanding - needs improvement"
    ELSE "Limited understanding of the concept"

_evaluate_conceptual_answer(a, q) ==
    LET words == Text(a).words
        score == Text(a).similarity     \* similarity * 100
        adjusted == IF words < 10 THEN Min2(score, 30)
                    ELSE IF words > 200 THEN Min2(score + 10, 100)
                    ELSE score
    IN  IF ~q.expected_answer
        THEN IF words < 10 THEN [score |-> 20, feedback |-> "Answer too brief"]
             ELSE IF words < 30
                  THEN [score |-> 50, feedback |-> "Answer could be more detailed"]
             ELSE IF words < 100
                  THEN [score |-> 80, feedback |-> "Good detailed answer"]
             ELSE [score |-> 90, feedback |-> "Comprehensive answer"]
        ELSE [score |-> adjusted, feedback |-> ConceptualFeedback(adjusted)]

_evaluate_practical_answer(a, q) ==
    LET marks == Text(a).practical
        words == Text(a).words
    IN  [score |-> Min2(100,
           (IF "structured" \in marks THEN 25 ELSE 0)
         + (IF "analytical" \in marks THEN 20 ELSE 0)
         + (IF q.category \in {"machine_learning", "data_science_fundamentals"}
               /\ "two_technical_terms" \in marks THEN 20 ELSE 0)
         + (IF words > 50 THEN 15 ELSE IF words > 20 THEN 10 ELSE 0)
         + (IF "example" \in marks THEN 10 ELSE 0)
         + (IF "conclusion" \in marks THEN 10 ELSE 0)),
         feedback |->
            IF \/ marks \cap {"structured", "analytical", "example", "conclusion"} # {}
               \/ q.category \in {"machine_learning", "data_science_fundamentals"}
                     /\ "two_technical_terms" \in marks
               \/ words > 20
            THEN "Practical answer evaluation" ELSE "Basic response"]

(* _evaluate_answer: dispatch on the question type inside try/except       *)
(* Exception; a question of no known type keeps the initial evaluation.    *)
_evaluate_answer(a, q) ==
    IF q.type \notin QuestionType THEN [score |-> 0, feedback |-> ""]
    ELSE IF RubricRaises(a, q)
    THEN [score |-> 0, feedback |-> "Error evaluating answer. Please contact support."]
    ELSE CASE q.type = "multiple_choice" -> _evaluate_multiple_choice(a, q)
           [] q.type = "coding"          -> _evaluate_coding_answer(a, q)
           [] q.type = "conceptual"      -> _evaluate_conceptual_answer(a, q)
           [] q.type = "practical"       -> _evaluate_practical_answer(a, q)

----------------------------------------------------------------------------
(* integrity_monitor.py.  Component scores are whole points 0..100; the    *)
(* overall score of an answer and the session scores are in thirds.        *)

min_answer_time == 5
max_answer_time == 1800
suspiciously_fast == 10
suspiciously_slow == 600

initialize_session_monitoring ==
    [answers |-> <<>>, integrity_flags |-> <<>>,
     current_integrity_score |-> [num |-> 100 * IntegrityScale, den |-> 1]]

_analyze_text_integrity(answer_text) ==
    [score |-> TextFeatures[answer_text].text_score,
     flags |-> TextFeatures[answer_text].text_flags]

(* The tests are two if/elif pairs: "elif time_taken < min_answer_time"    *)
(* is reached only when "time_taken < suspiciously_fast" is false, and      *)
(* "elif time_taken > max_answer_time" only when "time_taken >              *)
(* suspiciously_slow" is false.                                             *)
_analyze_timing_integrity(time_taken, complexity) ==
    LET fast == time_taken < suspiciously_fast
        too_fast == ~fast /\ time_taken < min_answer_time
        slow == time_taken > suspiciously_slow
        too_slow == ~slow /\ time_taken > max_answer_time
        expected_time == complexity * 60
        \* abs(time_taken - expected_time) > expected_time * 0.8
        unexpected == 5 * Abs(time_taken - expected_time) > 4 * expected_time
    IN  [score |-> Max2(0, 100 - (IF fast THEN 40 ELSE 0) - (IF too_fast THEN 20 ELSE 0)
                               - (IF slow THEN 30 ELSE 0) - (IF too_slow THEN 15 ELSE 0)
                               - (IF unexpected THEN 15 ELSE 0)),
         flags |-> (IF fast THEN <<"timing_suspiciously_fast">> ELSE <<>>)
                \o (IF too_fast THEN <<"timing_too_fast">> ELSE <<>>)
                \o (IF slow THEN <<"timing_suspiciously_slow">> ELSE <<>>)
                \o (IF too_slow THEN <<"timing_too_slow">> ELSE <<>>)
                \o (IF unexpected THEN <<"timing_unexpected_for_complexity">> ELSE <<>>)]

(* knowledge_consistency = max(0, 1 - |quality - mean quality of the last  *)
(* three answers|); the test "knowledge_consistency < 0.6"                 *)
KnowledgeInconsistent(answer_text, previous_answers) ==
    LET prev == LastN(previous_answers, 3)
        total == SumSeq([i \in 1..Len(prev) |-> TextFeatures[prev[i].answer_text].quality])
    IN  10 * Abs(TextFeatures[answer_text].quality * Len(prev) - total) > 400 * Len(prev)

(* the md5 digests of two texts are compared: equal for equal texts *)
_is_repeated_answer(current_text, previous_answers) ==
    \E i \in 1..Len(previous_answers) :
        strip(lower(TextFeatures[previous_answers[i].answer_text].form))
            = strip(lower(TextFeatures[current_text].form))

(* _analyze_answer_consistency raises AttributeError on a text that is     *)
(* None: get_style_metrics splits the current text and the last five        *)
(* earlier texts; _is_repeated_answer lowers the current text and each      *)
(* earlier text in turn until one repeats it.                               *)
ConsistencyRaises(answer_text, previous_answers) ==
    /\ previous_answers # <<>>
    /\ \/ TextFeatures[answer_text].missing
       \/ \E i \in 1..Len(previous_answers) :
             /\ TextFeatures[previous_answers[i].answer_text].missing
             /\ \/ i > Len(previous_answers) - 5
                \/ \A j \in 1..(i - 1) :
                      strip(lower(TextFeatures[previous_answers[j].answer_text].form))
                          # strip(lower(TextFeatures[answer_text].form))

_analyze_answer_consistency(answer_text, previous_answers) ==
    IF previous_answers = <<>> THEN [score |-> 100, flags |-> <<>>]
    ELSE LET style == TextFeatures[answer_text].style < 70
             knowledge == KnowledgeInconsistent(answer_text, previous_answers)
             repeated == _is_repeated_answer(answer_text, previous_answers)
         IN  [score |-> Max2(0, 100 - (IF style THEN 20 ELSE 0)
                                    - (IF knowledge THEN 25 ELSE 0)
                                    - (IF repeated THEN 35 ELSE 0)),
              flags |-> (IF style THEN <<"consistency_style_change">> ELSE <<>>)
                     \o (IF knowledge THEN <<"consistency_knowledge_level_change">>
                                      ELSE <<>>)
                     \o (IF repeated THEN <<"consistency_repeated_answer">> ELSE <<>>)]

(* the overall score of the latest answer in place of the mean *)
_calculate_session_integrity_score_latest(session) ==
    IF session.answers = <<>> THEN [num |-> 100 * IntegrityScale, den |-> 1]
    ELSE [num |-> session.answers[Len(session.answers)].integrity_score, den |-> 1]

(* sum(answer_scores) / len(answer_scores), kept exact as the fraction      *)
(* num / den; 100.0 when there is no answer.                                *)
_calculate_session_integrity_score(session) ==
    IF session.answers = <<>> THEN [num |-> 100 * IntegrityScale, den |-> 1]
    ELSE [num |-> SumSeq([i \in 1..Len(session.answers) |->
                             session.answers[i].integrity_score]),
          den |-> Len(session.answers)]

CopyPasteFlags ==
    {"copy_paste_detected", "copy_paste_too_short", "copy_paste_too_long",
     "copy_paste_empty_answer", "copy_paste_suspicious_code",
     "copy_paste_template_match"}
TimingFlags ==
    {"timing_suspiciously_fast", "timing_too_fast", "timing_suspiciously_slow",
     "timing_too_slow", "timing_unexpected_for_complexity"}

(* analyze_answer_integrity.  Raises when the monitor holds no data for    *)
(* the session (ValueError), when time_taken is no number (TypeError, from *)
(* the first comparison of _analyze_timing_integrity) and when the         *)
(* consistency analysis meets a text that is None; nothing has been stored *)
(* at any of these points.                                                 *)
(* lines 87-117: the overall score, the stored answer, the session score   *)
(* and the IntegrityMetrics object, from the three analyses                *)
IntegrityMetrics(monitor, session_id, a, consistency_score, overall_score, integrity_flags, appended) ==
    [raised |-> FALSE,
     monitor |-> [monitor EXCEPT ![session_id] =
                     [appended EXCEPT !.current_integrity_score =
                         _calculate_session_integrity_score(appended)]],
     metrics |->
        [copy_paste_detected |-> Range(integrity_flags) \cap CopyPasteFlags # {},
         unusual_timing_patterns |-> Range(integrity_flags) \cap TimingFlags # {},
         browser_anomalies |-> FALSE,
         answer_consistency_score |-> consistency_score,
         overall_integrity_score |-> overall_score,
         flags |-> integrity_flags]]

Scored(monitor, session_id, a, consistency_score, overall_score, integrity_flags) ==
    IntegrityMetrics(monitor, session_id, a, consistency_score, overall_score,
        integrity_flags,
        [monitor[session_id] EXCEPT !.answers = Append(@,
            [question_id |-> a.question_id,
             answer_text |-> a.answer_text,
             time_taken |-> a.time_taken,
             integrity_score |-> overall_score,
             flags |-> integrity_flags])])

Combined(monitor, session_id, a, text_analysis, timing_analysis, consistency_analysis) ==
    Scored(monitor, session_id, a, consistency_analysis.score,
           text_analysis.score + timing_analysis.score + consistency_analysis.score,
           text_analysis.flags \o timing_analysis.flags \o consistency_analysis.flags)

analyze_answer_integrity(monitor, session_id, a, q) ==
    IF \/ session_id \notin DOMAIN monitor
       \/ a.time_taken = BadTime
       \/ ConsistencyRaises(a.answer_text, monitor[session_id].answers)
    THEN [raised |-> TRUE, monitor |-> monitor, metrics |-> <<>>]
    ELSE Combined(monitor, session_id, a,
             _analyze_text_integrity(a.answer_text),
             _analyze_timing_integrity(a.time_taken, q.complexity),
             _analyze_answer_consistency(a.answer_text, monitor[session_id].answers))

(* config/settings.py: Config.INTEGRITY_SCORE_THRESHOLD = 0.7, of a point   *)
INTEGRITY_SCORE_THRESHOLD == [num |-> 7, den |-> 10]

(* get_session_integrity_report: ValueError for a session the monitor does  *)
(* not hold; risk_level is 'HIGH' if current_integrity_score <              *)
(* self.integrity_threshold else 'LOW'.  The score is in thirds of a point. *)
get_session_integrity_report(monitor, session_id) ==
    IF session_id \notin DOMAIN monitor
    THEN [raised |-> TRUE, overall_integrity_score |-> [num |-> 0, den |-> 1],
          risk_level |-> "", total_answers |-> 0]
    ELSE [raised |-> FALSE,
          overall_integrity_score |-> monitor[session_id].current_integrity_score,
          risk_level |->
              IF monitor[session_id].current_integrity_score.num
                     * INTEGRITY_SCORE_THRESHOLD.den
                 < INTEGRITY_SCORE_THRESHOLD.num * IntegrityScale
                     * monitor[session_id].current_integrity_score.den
              THEN "HIGH" ELSE "LOW",
          total_answers |-> Len(monitor[session_id].answers)]

cleanup_session_data_keeps(monitor, session_id) == monitor

cleanup_session_data(monitor, session_id) ==
    IF session_id \in DOMAIN monitor THEN Drop(monitor, session_id) ELSE monitor

----------------------------------------------------------------------------
(* audit_logger.py *)

(* _write_log_to_file: the write sits in try/except Exception; a failing   *)
(* disk is logged and swallowed.  TRUE when an exception leaves the method. *)
_write_log_to_file_raising(disk_ok) == ~disk_ok

_write_log_to_file(disk_ok) == FALSE

(* log_event: the entry is appended to the in-memory list of the session,  *)
(* then written to the file.                                               *)
log_event(logs, session_id, event_type, disk_ok) ==
    [logs |-> Put(logs, session_id,
                  Append(IF session_id \in DOMAIN logs THEN logs[session_id] ELSE <<>>,
                         event_type)),
     raised |-> _write_log_to_file(disk_ok),
     write_failed |-> ~disk_ok]

----------------------------------------------------------------------------
(* adaptive_interview.py: difficulty adaptation and question selection.    *)
(* A mean is passed as the pair total, n.                                  *)

DifficultyIndex(d) == CHOOSE i \in 1..4 : DifficultyOrder[i] = d

_adjust_difficulty_two_up(current_difficulty, total, n) ==
    LET current_index == DifficultyIndex(current_difficulty) IN
    IF total > 85 * n /\ current_index < 3
    THEN DifficultyOrder[current_index + 2]
    ELSE IF total < 40 * n /\ current_index > 1
    THEN DifficultyOrder[current_index - difficulty_step_down]
    ELSE current_difficulty

_adjust_difficulty(current_difficulty, total, n) ==
    LET current_index == DifficultyIndex(current_difficulty) IN
    IF total > 85 * n /\ current_index < 4
    THEN DifficultyOrder[current_index + difficulty_step_up]
    ELSE IF total < 40 * n /\ current_index > 1
    THEN DifficultyOrder[current_index - difficulty_step_down]
    ELSE current_difficulty

(* category_performance is a dictionary: a list of entries in insertion order *)
AddCategoryScore(category_performance, category, score) ==
    IF \E i \in 1..Len(category_performance) :
           category_performance[i].category = category
    THEN [i \in 1..Len(category_performance) |->
             IF category_performance[i].category = category
             THEN [category_performance[i] EXCEPT !.scores = Append(@, score)]
             ELSE category_performance[i]]
    ELSE Append(category_performance, [category |-> category, scores |-> <<score>>])

MeanLess(a, b) == SumSeq(a.scores) * Len(b.scores) < SumSeq(b.scores) * Len(a.scores)

(* list.sort(key=average) is stable: the first entry among those of least  *)
(* average comes first.                                                    *)
RECURSIVE SortByMean(_)
SortByMean(entries) ==
    IF entries = <<>> THEN <<>>
    ELSE LET first == CHOOSE i \in 1..Len(entries) :
                          /\ \A j \in 1..Len(entries) : ~MeanLess(entries[j], entries[i])
                          /\ \A j \in 1..(i - 1) : MeanLess(entries[i], entries[j])
             rest == [k \in 1..(Len(entries) - 1) |->
                         IF k < first THEN entries[k] ELSE entries[k + 1]]
         IN  <<entries[first]>> \o SortByMean(rest)

_identify_weak_categories(category_performance) ==
    LET weak == SelectSeq(category_performance,
                          LAMBDA e : e.scores # <<>>
                                     /\ SumSeq(e.scores) < 60 * Len(e.scores))
        sorted == SortByMean(weak)
    IN  [i \in 1..Len(sorted) |-> sorted[i].category]

(* _select_next_question, lines 444-468: the catalogue query, the filter   *)
(* by the ids already asked, the fallback to the remaining initial set     *)
Available(sd, new_difficulty, available_questions) ==
    IF available_questions # <<>>
    THEN [question |-> available_questions[1], difficulty_level |-> new_difficulty]
    ELSE IF sd.remaining_questions # <<>>
    THEN [question |-> sd.remaining_questions[1],
          difficulty_level |-> sd.difficulty_level]
    ELSE [question |-> NoQuestion, difficulty_level |-> sd.difficulty_level]

Selected(sd, new_difficulty, weak_categories) ==
    Available(sd, new_difficulty,
        SelectSeq(IF weak_categories # <<>>
                  THEN get_questions_by_category(weak_categories[1], new_difficulty)
                  ELSE get_questions_by_difficulty(new_difficulty),
                  LAMBDA qid : qid \notin Range(sd.asked_questions)))

(* _select_next_question: the question chosen (NoQuestion for None) and    *)
(* the session's difficulty level after the call.                          *)
_select_next_question(sd) ==
    IF sd.performance_history = <<>>
    THEN [question |-> NoQuestion, difficulty_level |-> sd.difficulty_level]
    ELSE
    Selected(sd,
        _adjust_difficulty(sd.difficulty_level,
            SumSeq([i \in 1..Len(LastN(sd.performance_history, 3)) |->
                       LastN(sd.performance_history, 3)[i].score]),
            Len(LastN(sd.performance_history, 3))),
        _identify_weak_categories(sd.category_performance))

(* _determine_next_action, first test:                                      *)
(* len(performance_history) >= self.max_questions_per_session               *)
MaximumReachedLate(n) == n > max_questions_per_session

MaximumNeverReached(n) == FALSE

MaximumReached(n) == n >= max_questions_per_session

(* _determine_next_action, third test: the minimum number of questions is  *)
(* reached and the mean of the last three scores is below 30 or above 90   *)
ScoreBandAnyCount(n, recent_scores) ==
    \/ SumSeq(recent_scores) < 30 * Len(recent_scores)
    \/ SumSeq(recent_scores) > 90 * Len(recent_scores)

ScoreBandReached(n, recent_scores) ==
    /\ n >= min_questions_per_session
    /\ \/ SumSeq(recent_scores) < 30 * Len(recent_scores)
       \/ SumSeq(recent_scores) > 90 * Len(recent_scores)

(* _determine_next_action: whether the session is complete, the next       *)
(* question, and the session object after the call.  expired is the test   *)
(* session_duration > session_timeout.                                     *)
NextActionUnfinished(sd, expired, n, band, next) ==
        IF MaximumReached(n) \/ expired \/ band
        THEN [complete |-> TRUE, question |-> NoQuestion, sd |-> sd]
        ELSE IF next.question # NoQuestion
        THEN [complete |-> FALSE, question |-> next.question,
              sd |-> [sd EXCEPT !.difficulty_level = next.difficulty_level,
                                !.current_question = next.question,
                                !.remaining_questions =
                                    SelectSeq(@, LAMBDA qid : qid # next.question)]]
        ELSE [complete |-> FALSE, question |-> NoQuestion, sd |-> sd]

(* a decision that also ends a session whose integrity score is below 50,  *)
(* the score the report counts as a violation                              *)
NextActionOnIntegrity(sd, expired, n, band, next) ==
        IF MaximumReached(n) \/ expired \/ band \/ sd.integrity_score < 50 * IntegrityScale
        THEN [complete |-> TRUE, question |-> NoQuestion, sd |-> sd]
        ELSE IF next.question # NoQuestion
        THEN [complete |-> FALSE, question |-> next.question,
              sd |-> [sd EXCEPT !.difficulty_level = next.difficulty_level,
                                !.current_question = next.question,
                                !.remaining_questions =
                                    SelectSeq(@, LAMBDA qid : qid # next.question)]]
        ELSE [complete |-> TRUE, question |-> NoQuestion, sd |-> sd]

NextAction(sd, expired, n, band, next) ==
        IF MaximumReached(n) \/ expired \/ band
        THEN [complete |-> TRUE, question |-> NoQuestion, sd |-> sd]
        ELSE IF next.question # NoQuestion
        THEN [complete |-> FALSE, question |-> next.question,
              sd |-> [sd EXCEPT !.difficulty_level = next.difficulty_level,
                                !.current_question = next.question,
                                !.remaining_questions =
                                    SelectSeq(@, LAMBDA qid : qid # next.question)]]
        ELSE [complete |-> TRUE, question |-> NoQuestion, sd |-> sd]

_determine_next_action(sd, expired) ==
    NextAction(sd, expired, Len(sd.performance_history),
               ScoreBandReached(Len(sd.performance_history),
                   LastN([i \in 1..Len(sd.performance_history) |->
                             sd.performance_history[i].score], 3)),
               _select_next_question(sd))

----------------------------------------------------------------------------
(* adaptive_interview.py: the engine.  E is the state the engine and its   *)
(* collaborators hold; c is one submit_answer call: its arguments, its     *)
(* locals and its place in the method (pc).                                *)

Engine ==
    [active_sessions |-> active_sessions, session_data |-> session_data,
     monitor_data |-> monitor_data, session_logs |-> session_logs,
     timed_out |-> timed_out]

NoResult ==
    [error |-> "none", session_complete |-> FALSE, next_question |-> NoQuestion,
     answer_score |-> 0, answer_feedback |-> "", report |-> <<>>, progress |-> <<>>,
     write_failures |-> 0]       \* audit entries of the call that did not reach the file

NewCall(session_id, a, disk_ok) ==
    [session_id |-> session_id, a |-> a, disk_ok |-> disk_ok, pc |-> "check",
     current_question |-> NoQuestion, answer |-> <<>>, metrics |-> <<>>,
     result |-> NoResult]

IdleCall == [pc |-> "idle"]

Raise(E, c, error) ==
    [E |-> E, c |-> [c EXCEPT !.pc = "raised", !.result.error = error]]

Failures(c, logged) ==
    c.result.write_failures + (IF logged.write_failed THEN 1 ELSE 0)

(* start_interview_session: the objects stored under the new id *)
NewSessionData(initial_questions) ==
    [current_question |-> IF initial_questions # <<>> THEN initial_questions[1]
                          ELSE NoQuestion,
     answers |-> <<>>,
     difficulty_level |-> "intermediate",
     integrity_score |-> 100 * IntegrityScale,
     compliance_status |-> "compliant",
     is_active |-> TRUE,
     remaining_questions |-> IF initial_questions # <<>> THEN Tail(initial_questions)
                             ELSE <<>>,
     asked_questions |-> IF initial_questions # <<>> THEN <<initial_questions[1]>>
                         ELSE <<>>,
     performance_history |-> <<>>,
     category_performance |-> <<>>,
     integrity_metrics |-> <<>>]

_calculate_session_progress(sd) ==
    [questions_asked |-> Len(sd.performance_history),
     max_questions |-> max_questions_per_session,
     current_difficulty |-> sd.difficulty_level,
     average_score |->
        [num |-> SumSeq([i \in 1..Len(sd.performance_history) |->
                            sd.performance_history[i].score]),
         den |-> Max2(1, Len(sd.performance_history))],
     integrity_score |-> sd.integrity_score]

(* _generate_interview_report, without its audit entry.  The threshold     *)
(* Config.INTEGRITY_SCORE_THRESHOLD is 0.7 (of a point).  question_text    *)
(* is the asked question found by the id of the history entry.             *)
InterviewReport(session_id, sd) ==
    [session_id |-> session_id,
     overall_score |->
        [num |-> SumSeq([i \in 1..Len(sd.performance_history) |->
                            sd.performance_history[i].score]),
         den |-> Max2(1, Len(sd.performance_history))],
     question_results |->
        [i \in 1..Len(sd.performance_history) |->
            [question_text |-> sd.performance_history[i].question_id,
             score |-> sd.performance_history[i].score]],
     compliance_summary |->
        [overall_status |-> IF 10 * sd.integrity_score > 7 * IntegrityScale
                            THEN "compliant" ELSE "flagged",
         integrity_score |-> sd.integrity_score,
         violations |-> Cardinality({i \in 1..Len(sd.integrity_metrics) :
                            sd.integrity_metrics[i].overall_integrity_score
                                < 50 * IntegrityScale})]]

StepCheckLogged(E, c) ==
    LET logged == log_event(E.session_logs, c.session_id, "answer_submission", c.disk_ok)
    IN  IF c.session_id \notin E.active_sessions
             \/ E.session_data[c.session_id].current_question = NoQuestion
        THEN Raise([E EXCEPT !.session_logs = logged.logs], c,
                   IF c.session_id \notin E.active_sessions
                   THEN "SessionNotFound" ELSE "NoPendingQuestion")
        ELSE [E |-> E,
              c |-> [c EXCEPT !.pc = "analyze",
                       !.current_question =
                           E.session_data[c.session_id].current_question]]

(* submit_answer, lines 106-114: the two precondition checks *)
StepCheck(E, c) ==
    IF c.session_id \notin E.active_sessions
    THEN Raise(E, c, "SessionNotFound")
    ELSE LET current_question == E.session_data[c.session_id].current_question IN
         IF current_question = NoQuestion
         THEN Raise(E, c, "NoPendingQuestion")
         ELSE [E |-> E,
               c |-> [c EXCEPT !.pc = "analyze", !.current_question = current_question]]

(* lines 117-135: the Answer object, its evaluation, the integrity check *)
Analyzed(E, c, answer, analysis) ==
    IF analysis.raised
    THEN Raise(E, c, "IntegrityAnalysisError")
    ELSE [E |-> [E EXCEPT !.monitor_data = analysis.monitor],
          c |-> [c EXCEPT !.pc = "update", !.answer = answer,
                          !.metrics = analysis.metrics,
                          !.result.answer_score = answer.score,
                          !.result.answer_feedback = answer.feedback]]

Evaluated(E, c, answer) ==
    Analyzed(E, c, answer,
             analyze_answer_integrity(E.monitor_data, c.session_id, answer,
                                      Question(c.current_question)))

StepAnalyze(E, c) ==
    Evaluated(E, c, [question_id |-> c.current_question,
                     answer_text |-> c.a.answer_text,
                     time_taken |-> c.a.time_taken,
                     score |-> _evaluate_answer(c.a, Question(c.current_question)).score,
                     feedback |->
                         _evaluate_answer(c.a, Question(c.current_question)).feedback])

(* lines 137-157: the session data is updated *)
StepUpdate(E, c) ==
    LET q == Question(c.current_question)
        sd == E.session_data[c.session_id]
        updated ==
            [sd EXCEPT
                !.answers = Append(@, c.answer),
                !.asked_questions = Append(@, c.current_question),
                !.performance_history = Append(@,
                    [question_id |-> c.current_question,
                     score |-> c.answer.score,
                     difficulty |-> q.difficulty,
                     category |-> q.category,
                     time_taken |-> c.a.time_taken,
                     integrity_score |-> c.metrics.overall_integrity_score]),
                !.category_performance = AddCategoryScore(@, q.category, c.answer.score),
                !.integrity_score = c.metrics.overall_integrity_score,
                !.integrity_metrics = Append(@, c.metrics)]
    IN  [E |-> [E EXCEPT !.session_data[c.session_id] = updated],
         c |-> [c EXCEPT !.pc = "log"]]

(* lines 159-170: the audit entry of the submission *)
StepLog(E, c) ==
    LET logged == log_event(E.session_logs, c.session_id, "answer_submission", c.disk_ok)
    IN  IF logged.raised
        THEN Raise([E EXCEPT !.session_logs = logged.logs], c, "AuditLogError")
        ELSE [E |-> [E EXCEPT !.session_logs = logged.logs],
              c |-> [c EXCEPT !.pc = "decide", !.result.write_failures = Failures(c, logged)]]

(* lines 172-182: the decision and the result dictionary *)
Decided(E, c, next_action) ==
        [E |-> [E EXCEPT !.session_data[c.session_id] = next_action.sd],
         c |-> [c EXCEPT !.pc = IF next_action.complete THEN "report" ELSE "returned",
                         !.result.session_complete = next_action.complete,
                         !.result.next_question = next_action.question,
                         !.result.progress = _calculate_session_progress(next_action.sd)]]

(* _determine_next_action, second test: session_duration > session_timeout, *)
(* with datetime.now() read at the call                                    *)
SessionNeverExpires(E, session_id) == FALSE

SessionExpired(E, session_id) == session_id \in E.timed_out

StepDecide(E, c) ==
    Decided(E, c, _determine_next_action(E.session_data[c.session_id],
                                         SessionExpired(E, c.session_id)))

(* lines 184-187: _generate_interview_report looks the session up again *)
StepReport(E, c) ==
    IF c.session_id \notin E.active_sessions
    THEN Raise(E, c, "SessionNotFound")
    ELSE LET logged == log_event(E.session_logs, c.session_id,
                                 "interview_report_generated", c.disk_ok)
         IN  IF logged.raised
             THEN Raise([E EXCEPT !.session_logs = logged.logs], c, "AuditLogError")
             ELSE [E |-> [E EXCEPT !.session_logs = logged.logs],
                   c |-> [c EXCEPT !.pc = "end",
                             !.result.write_failures = Failures(c, logged),
                             !.result.report =
                                 InterviewReport(c.session_id,
                                                 E.session_data[c.session_id])]]

_end_session_keeps_registry(E, c) ==
    IF c.session_id \in E.active_sessions
    THEN LET logged == log_event(E.session_logs, c.session_id,
                                 "interview_session_end", c.disk_ok)
         IN  [E |-> [E EXCEPT !.session_data[c.session_id].is_active = FALSE,
                              !.session_logs = logged.logs,
                              !.monitor_data = cleanup_session_data(@, c.session_id)],
              c |-> [c EXCEPT !.pc = "returned",
                              !.result.write_failures = Failures(c, logged)]]
    ELSE [E |-> E, c |-> [c EXCEPT !.pc = "returned"]]

(* lines 189-192 and _end_session *)
_end_session(E, c) ==
    IF c.session_id \in E.active_sessions
    THEN LET logged == log_event(E.session_logs, c.session_id,
                                 "interview_session_end", c.disk_ok)
             ended == [E EXCEPT !.session_data[c.session_id].is_active = FALSE,
                                !.session_logs = logged.logs]
         IN  IF logged.raised
             THEN Raise(ended, c, "AuditLogError")
             ELSE [E |-> [ended EXCEPT
                            !.monitor_data = cleanup_session_data(@, c.session_id),
                            !.active_sessions = @ \ {c.session_id}],
                   c |-> [c EXCEPT !.pc = "returned",
                                   !.result.write_failures = Failures(c, logged)]]
    ELSE [E |-> E, c |-> [c EXCEPT !.pc = "returned"]]

Step(E, c) ==
    CASE c.pc = "check"   -> StepCheck(E, c)
      [] c.pc = "analyze" -> StepAnalyze(E, c)
      [] c.pc = "update"  -> StepUpdate(E, c)
      [] c.pc = "log"     -> StepLog(E, c)
      [] c.pc = "decide"  -> StepDecide(E, c)
      [] c.pc = "report"  -> StepReport(E, c)
      [] c.pc = "end"     -> _end_session(E, c)

Finished(c) == c.pc \in {"returned", "raised"}

(* submit_answer run from its first line up to the block named pc *)
RECURSIVE RunTo(_, _, _)
RunTo(E, c, pc) ==
    IF Finished(c) \/ c.pc = pc THEN [E |-> E, c |-> c]
    ELSE LET r == Step(E, c) IN RunTo(r.E, r.c, pc)

(* submit_answer run from its first line to its return or its exception *)
RECURSIVE submit_answer(_, _)
submit_answer(E, c) ==
    IF Finished(c) THEN [E |-> E, c |-> c]
    ELSE LET r == Step(E, c) IN submit_answer(r.E, r.c)

(* get_session_status: a read of the registry and the session object *)
get_session_status(E, session_id) ==
    IF session_id \notin E.active_sessions
    THEN [pc |-> "raised", result |-> [NoResult EXCEPT !.error = "SessionNotFound"]]
    ELSE LET session == E.session_data[session_id] IN
         [pc |-> "returned",
          result |-> [NoResult EXCEPT !.progress =
              [is_active |-> session.is_active,
               current_question |-> session.current_question,
               questions_asked |-> Len(session.answers),
               current_difficulty |-> session.difficulty_level,
               integrity_score |-> session.integrity_score]]]

----------------------------------------------------------------------------
(* Inputs *)

TargetLists ==
    { <<>>,                                          \* omitted or empty: the defaults
      <<"machine_learning", "machine_learning">>,    \* a category named twice
      <<"no_such_category">> }                       \* a category with no question

AnswerInputs ==
    { [answer_text |-> "poor",   time_taken |-> 8],
      [answer_text |-> "fair",   time_taken |-> 120],
      [answer_text |-> "strong", time_taken |-> 700],
      [answer_text |-> "fair",   time_taken |-> BadTime],
      [answer_text |-> "none",   time_taken |-> 120] }

(* The answers recorded so far, in all sessions: one audit entry each *)
TotalAnswers ==
    SumSeq([i \in 1..next_id |->
               Len(SelectSeq(session_logs[i], LAMBDA e : e = "answer_submission"))])

----------------------------------------------------------------------------
(* The state machine *)

Init ==
    /\ questions \in {DefaultQuestions, EmptyBank, OneQuestionBank}
    /\ active_sessions = {}
    /\ session_data = <<>>
    /\ monitor_data = <<>>
    /\ session_logs = <<>>
    /\ next_id = 0
    /\ timed_out = {}
    /\ calls = [t \in Threads |-> IdleCall]
    /\ last_result = [op |-> "none", session_id |-> 0, pc |-> "returned",
                      result |-> NoResult]

(* The engine's state after a step.  A session object that neither the    *)
(* registry nor a call in flight refers to can no longer be read or        *)
(* changed by the engine: only its is_active flag is kept.                 *)
Referenced(E, cs, session_id) ==
    \/ session_id \in E.active_sessions
    \/ \E t \in Threads : /\ cs[t].pc \notin {"idle", "check", "returned", "raised"}
                          /\ cs[t].session_id = session_id

SetEngine(E, cs) ==
    /\ active_sessions' = E.active_sessions
    /\ session_data' =
          [session_id \in DOMAIN E.session_data |->
              IF Referenced(E, cs, session_id) THEN E.session_data[session_id]
              ELSE [is_active |-> E.session_data[session_id].is_active]]
    /\ monitor_data' = E.monitor_data
    /\ session_logs' = E.session_logs

(* start_interview_session(candidate_id, job_id, target_categories) *)
StartSession(target_categories, disk_ok) ==
    /\ next_id < MaxSessions
    /\ active_sessions = {}       \* the model runs one interview at a time
    /\ LET session_id == next_id + 1
           initial_questions == _generate_initial_question_set(target_categories)
           logged == log_event(session_logs, session_id, "interview_session_start",
                               disk_ok)
       IN  /\ next_id' = session_id
           /\ monitor_data' = Put(monitor_data, session_id, initialize_session_monitoring)
           /\ session_data' = Put(session_data, session_id,
                                  NewSessionData(initial_questions))
           /\ active_sessions' = active_sessions \cup {session_id}
           /\ session_logs' = logged.logs
           /\ last_result' =
                 [op |-> "start_interview_session", session_id |-> session_id,
                  target_categories |-> target_categories,
                  pc |-> IF logged.raised THEN "raised" ELSE "returned",
                  result |-> [NoResult EXCEPT
                      !.error = IF logged.raised THEN "AuditLogError" ELSE "none",
                      !.write_failures = IF logged.write_failed THEN 1 ELSE 0]]
    /\ UNCHANGED <<questions, timed_out, calls>>

(* submit_answer(session_id, answer_text, time_taken), run without interruption *)
Completed(session_id, r) ==
    /\ SetEngine(r.E, calls)
    /\ last_result' = [op |-> "submit_answer", session_id |-> session_id,
                       pc |-> r.c.pc, result |-> r.c.result]
    /\ UNCHANGED <<questions, next_id, timed_out, calls>>

SubmitAnswer(session_id, a, disk_ok) ==
    Completed(session_id, submit_answer(Engine, NewCall(session_id, a, disk_ok)))

(* get_session_status(session_id) *)
GetSessionStatus(session_id) ==
    /\ last_result' = [op |-> "get_session_status", session_id |-> session_id,
                       pc |-> get_session_status(Engine, session_id).pc,
                       result |-> get_session_status(Engine, session_id).result]
    /\ UNCHANGED <<questions, active_sessions, session_data, monitor_data,
                   session_logs, next_id, timed_out, calls>>

(* The clock passes started_at + session_timeout of a session; sessions    *)
(* started earlier have passed theirs.                                     *)
TimePasses(session_id) ==
    /\ session_id \in active_sessions \ timed_out
    /\ \A other \in active_sessions : other < session_id => other \in timed_out
    /\ timed_out' = timed_out \cup {session_id}
    /\ UNCHANGED <<questions, active_sessions, session_data, monitor_data,
                   session_logs, next_id, calls, last_result>>

Next ==
    \/ \E target_categories \in TargetLists, disk_ok \in BOOLEAN :
           StartSession(target_categories, disk_ok)
    \/ \E session_id \in Ids, a \in AnswerInputs, disk_ok \in BOOLEAN :
           TotalAnswers < MaxAnswers /\ SubmitAnswer(session_id, a, disk_ok)
    \/ \E session_id \in Ids : GetSessionStatus(session_id)
    \/ \E session_id \in Ids : TimePasses(session_id)

Spec == Init /\ [][Next]_vars

----------------------------------------------------------------------------
(* Whole interviews.  One session is run to its end, with no bound on the  *)
(* number of answers.                                                      *)

LongInputs ==
    { [answer_text |-> "poor",   time_taken |-> 8],
      [answer_text |-> "fair",   time_taken |-> 120],
      [answer_text |-> "strong", time_taken |-> 700] }

InitLong == Init /\ questions = DefaultQuestions

StartLong ==
    /\ next_id = 0
    /\ \E target_categories \in TargetLists : StartSession(target_categories, TRUE)

SubmitLong ==
    \E session_id \in active_sessions, a \in LongInputs :
        SubmitAnswer(session_id, a, TRUE)

NextLong == StartLong \/ SubmitLong

SpecLong == InitLong /\ [][NextLong]_vars

----------------------------------------------------------------------------
(* Concurrent requests.  The Flask application serves each request on its   *)
(* own thread and calls the one engine object without a lock, so the        *)
(* statements of two submit_answer calls interleave.  A call advances one   *)
(* block of statements (Step) at a time.                                    *)

ConcInputs ==
    { [answer_text |-> "poor",   time_taken |-> 8],
      [answer_text |-> "strong", time_taken |-> 700] }

(* calls that have not yet written their audit entry *)
Pending == {t \in Threads : calls[t].pc \in {"check", "analyze", "update", "log"}}

InitConc == Init /\ questions = DefaultQuestions

StartConc == StartSession(<<>>, TRUE)

BeginSubmit(t, session_id, a) ==
    /\ calls[t].pc = "idle"
    /\ TotalAnswers + Cardinality(Pending) < MaxCalls
    /\ calls' = [calls EXCEPT ![t] = NewCall(session_id, a, TRUE)]
    /\ UNCHANGED <<questions, active_sessions, session_data, monitor_data,
                   session_logs, next_id, timed_out, last_result>>

Stepped(t, r) ==
    /\ SetEngine(r.E, [calls EXCEPT ![t] = r.c])
    /\ calls' = [calls EXCEPT ![t] = r.c]
    /\ UNCHANGED <<questions, next_id, timed_out, last_result>>

StepSubmit(t) ==
    /\ calls[t].pc \notin {"idle", "returned", "raised"}
    /\ Stepped(t, Step(Engine, calls[t]))

FinishSubmit(t) ==
    /\ Finished(calls[t])
    /\ last_result' = [op |-> "submit_answer", session_id |-> calls[t].session_id,
                       pc |-> calls[t].pc, result |-> calls[t].result]
    /\ calls' = [calls EXCEPT ![t] = IdleCall]
    /\ UNCHANGED <<questions, active_sessions, session_data, monitor_data,
                   session_logs, next_id, timed_out>>

NextConc ==
    \/ StartConc
    \/ \E t \in Threads, session_id \in Ids, a \in ConcInputs :
           BeginSubmit(t, session_id, a)
    \/ \E t \in Threads : StepSubmit(t)
    \/ \E t \in Threads : FinishSubmit(t)
    \/ \E session_id \in Ids : TimePasses(session_id)

SpecConc == InitConc /\ [][NextConc]_vars

----------------------------------------------------------------------------
(* A client that keeps answering.  One session over any of the catalogs,    *)
(* started with any target list; the client submits an answer to the        *)
(* pending question, one call at a time, again and again, while the clock   *)
(* may pass the session's maximum duration.                                 *)

InitLive == Init

StartLive ==
    /\ next_id = 0
    /\ \E target_categories \in TargetLists : StartSession(target_categories, TRUE)

SubmitLive ==
    \E session_id \in active_sessions, a \in LongInputs :
        /\ session_data[session_id].current_question # NoQuestion
        /\ SubmitAnswer(session_id, a, TRUE)

ClockLive == \E session_id \in Ids : TimePasses(session_id)

NextLive == StartLive \/ SubmitLive \/ ClockLive

(* SubmitLive can be taken, and changes the state, exactly when a session   *)
(* is active and has a pending question: a submission of one of the         *)
(* LongInputs to a pending question is always recorded.                     *)
CanSubmit ==
    \E session_id \in active_sessions :
        session_data[session_id].current_question # NoQuestion

(* The client keeps submitting: weak fairness of SubmitLive,                *)
(* WF_vars(SubmitLive), written with CanSubmit for ENABLED <<SubmitLive>>_vars. *)
KeepsSubmitting == []<>(~CanSubmit) \/ []<><<SubmitLive>>_vars

SpecLive == InitLive /\ [][NextLive]_vars /\ KeepsSubmitting

----------------------------------------------------------------------------
(* Repeated answers.  One interview in which the candidate submits the     *)
(* same answer text again, as it is or with other capitals or other white   *)
(* space.                                                                   *)

RepeatInputs ==
    { [answer_text |-> "fair",        time_taken |-> 120],
      [answer_text |-> "fair_cased",  time_taken |-> 120],
      [answer_text |-> "fair_spaced", time_taken |-> 120],
      [answer_text |-> "strong",      time_taken |-> 120] }

InitRepeat == Init /\ questions = DefaultQuestions

StartRepeat == next_id = 0 /\ StartSession(<<>>, TRUE)

SubmitRepeat ==
    \E session_id \in active_sessions, a \in RepeatInputs :
        TotalAnswers < MaxAnswers /\ SubmitAnswer(session_id, a, TRUE)

NextRepeat == StartRepeat \/ SubmitRepeat

SpecRepeat == InitRepeat /\ [][NextRepeat]_vars

----------------------------------------------------------------------------
(* evaluator.py: InterviewEvaluator._assess_role_suitability.  A report is *)
(* given by its domain_scores dictionary and its overall_score, in whole    *)
(* points.  A suitability score is kept exact, as the fraction num / den:   *)
(* (score / max_score) * 100 with score = num / 100 and max_score = den.    *)

role_requirements == <<
    [role |-> "Data Scientist",
     critical_domains |-> <<"data_science_fundamentals", "statistics_probability",
                            "machine_learning">>,
     preferred_domains |-> <<"python_programming", "sql_databases">>,
     min_overall_score |-> 70],
    [role |-> "ML Engineer",
     critical_domains |-> <<"machine_learning", "python_programming", "deep_learning">>,
     preferred_domains |-> <<"mlops_devops", "cloud_platforms">>,
     min_overall_score |-> 75],
    [role |-> "Agentic AI Developer",
     critical_domains |-> <<"agentic_ai_systems", "prompt_engineering",
                            "llm_fundamentals">>,
     preferred_domains |-> <<"python_programming", "machine_learning">>,
     min_overall_score |-> 80],
    [role |-> "Data Analyst",
     critical_domains |-> <<"data_science_fundamentals", "sql_databases",
                            "python_programming">>,
     preferred_domains |-> <<"statistics_probability">>,
     min_overall_score |-> 65] >>

(* the sum of weight * domain score over the listed domains the report has *)
DomainPoints(report, domains, weight) ==
    SumSeq([i \in 1..Len(domains) |->
               IF domains[i] \in DOMAIN report.domain_scores
               THEN report.domain_scores[domains[i]] * weight ELSE 0])

RoleScore(report, requirements) ==
    [num |-> DomainPoints(report, requirements.critical_domains, 40)
             + DomainPoints(report, requirements.preferred_domains, 20)
             + (IF report.overall_score >= requirements.min_overall_score
                THEN report.overall_score * 40 ELSE 0),
     den |-> 40 * Len(requirements.critical_domains)
             + 20 * Len(requirements.preferred_domains) + 40]

FractionLess(a, b) == a.num * b.den < b.num * a.den

BestRoleLast(role_scores) ==
    CHOOSE i \in 1..Len(role_scores) :
        /\ \A j \in 1..Len(role_scores) : ~FractionLess(role_scores[i], role_scores[j])
        /\ \A j \in (i + 1)..Len(role_scores) : FractionLess(role_scores[j], role_scores[i])

(* max(suitability_scores, key=suitability_scores.get): the first key, in  *)
(* insertion order, of greatest value                                      *)
BestRole(role_scores) ==
    CHOOSE i \in 1..Len(role_scores) :
        /\ \A j \in 1..Len(role_scores) : ~FractionLess(role_scores[i], role_scores[j])
        /\ \A j \in 1..(i - 1) : FractionLess(role_scores[j], role_scores[i])

Suitability(role_scores, best_role) ==
    [role_scores |-> role_scores,
     best_fit_role |-> role_requirements[best_role].role,
     best_fit_score |-> role_scores[best_role]]

_assess_role_suitability(report) ==
    Suitability([i \in 1..Len(role_requirements) |->
                    RoleScore(report, role_requirements[i])],
                BestRole([i \in 1..Len(role_requirements) |->
                             RoleScore(report, role_requirements[i])]))

(* The reports given to the evaluator. *)
ReportDomains == {"machine_learning", "python_programming", "agentic_ai_systems"}
DomainScoreInputs ==
    UNION {[domains -> {0, 55, 100}] : domains \in SUBSET ReportDomains}
OverallScoreInputs == {0, 64, 65, 74, 75, 80, 100}

InitRoles ==
    /\ Init
    /\ questions = DefaultQuestions

GiveReport ==
    /\ last_result.op = "none"
    /\ \E domain_scores \in DomainScoreInputs, overall_score \in OverallScoreInputs :
          last_result' = [op |-> "interview_report", session_id |-> 0,
                          pc |-> "returned",
                          result |-> [domain_scores |-> domain_scores,
                                      overall_score |-> overall_score]]
    /\ UNCHANGED <<questions, active_sessions, session_data, monitor_data,
                   session_logs, next_id, timed_out, calls>>

AssessRoles ==
    /\ last_result.op = "interview_report"
    /\ last_result' = [op |-> "_assess_role_suitability", session_id |-> 0,
                       pc |-> "returned",
                       report |-> last_result.result,
                       result |-> _assess_role_suitability(last_result.result)]
    /\ UNCHANGED <<questions, active_sessions, session_data, monitor_data,
                   session_logs, next_id, timed_out, calls>>

NextRoles == GiveReport \/ AssessRoles

SpecRoles == InitRoles /\ [][NextRoles]_vars

----------------------------------------------------------------------------
(* Multiple choice questions.  The default bank holds none; a bank file can. *)
(* The rubric is applied to questions given by the items of their           *)
(* expected_answer and to answers given by the words typed.                 *)

ChoiceItems == {"python", "Python", " Pandas ", "numpy", ""}

ChoiceExpected ==
    {<<>>} \cup {<<i>> : i \in ChoiceItems}
           \cup {<<i, j>> : i, j \in ChoiceItems}
           \cup {<<"python", "pandas", "numpy">>, <<"Python", " Pandas ", "NumPy">>}

ChoiceAnswers == {"choice_blank", "choice_python", "choice_two", "choice_three", "none"}

ChoiceQuestion(expected_items) ==
    [question_id |-> 1, category |-> "python_programming",
     type |-> "multiple_choice", difficulty |-> "beginner",
     expected_answer |-> expected_items # <<>>, expected_items |-> expected_items,
     complexity |-> 1]

InitChoice ==
    /\ Init
    /\ questions = DefaultQuestions

AskChoice ==
    /\ last_result.op = "none"
    /\ \E expected_items \in ChoiceExpected, answer_text \in ChoiceAnswers :
          last_result' = [op |-> "question", session_id |-> 0, pc |-> "returned",
                          question |-> ChoiceQuestion(expected_items),
                          a |-> [answer_text |-> answer_text, time_taken |-> 30]]
    /\ UNCHANGED <<questions, active_sessions, session_data, monitor_data,
                   session_logs, next_id, timed_out, calls>>

EvaluateChoice ==
    /\ last_result.op = "question"
    /\ last_result' = [op |-> "_evaluate_answer", session_id |-> 0, pc |-> "returned",
                       question |-> last_result.question, a |-> last_result.a,
                       raised |-> RubricRaises(last_result.a, last_result.question),
                       result |-> _evaluate_answer(last_result.a, last_result.question),
                       rubric |-> IF RubricRaises(last_result.a, last_result.question)
                                  THEN <<>>
                                  ELSE _evaluate_multiple_choice(last_result.a,
                                                                 last_result.question)]
    /\ UNCHANGED <<questions, active_sessions, session_data, monitor_data,
                   session_logs, next_id, timed_out, calls>>

NextChoice == AskChoice \/ EvaluateChoice

SpecChoice == InitChoice /\ [][NextChoice]_vars

----------------------------------------------------------------------------
(* resume_scorer/scorer.py: ResumeScorer._calculate_experience_score.       *)
(* Experience is in whole years; the score is kept exact, as the fraction   *)
(* num / den.                                                               *)

_calculate_experience_score(resume_experience, required_experience) ==
    IF required_experience = 0
    THEN [num |-> IF resume_experience > 0 THEN 100 ELSE 50, den |-> 1]
    ELSE IF resume_experience >= required_experience
    THEN \* excess_ratio = min(resume / required, 2.0);
         \* min(100, 80 + (excess_ratio - 1) * 20)
         [num |-> Min2(100 * required_experience,
                       80 * required_experience
                       + 20 * (Min2(resume_experience, 2 * required_experience)
                               - required_experience)),
          den |-> required_experience]
    ELSE \* max(0, (resume / required) * 80)
         [num |-> Max2(0, 80 * resume_experience), den |-> required_experience]

ExperienceInputs == 0..MaxExperience
RequiredInputs == 0..(MaxExperience \div 2)

InitExperience ==
    /\ Init
    /\ questions = DefaultQuestions

GiveResume ==
    /\ last_result.op = "none"
    /\ \E resume_experience \in ExperienceInputs, required_experience \in RequiredInputs :
          last_result' = [op |-> "resume", session_id |-> 0, pc |-> "returned",
                          resume_experience |-> resume_experience,
                          required_experience |-> required_experience]
    /\ UNCHANGED <<questions, active_sessions, session_data, monitor_data,
                   session_logs, next_id, timed_out, calls>>

ScoreExperience ==
    /\ last_result.op = "resume"
    /\ last_result' = [op |-> "_calculate_experience_score", session_id |-> 0,
                       pc |-> "returned",
                       resume_experience |-> last_result.resume_experience,
                       required_experience |-> last_result.required_experience,
                       result |-> _calculate_experience_score(
                                      last_result.resume_experience,
                                      last_result.required_experience)]
    /\ UNCHANGED <<questions, active_sessions, session_data, monitor_data,
                   session_logs, next_id, timed_out, calls>>

NextExperience == GiveResume \/ ScoreExperience

SpecExperience == InitExperience /\ [][NextExperience]_vars

----------------------------------------------------------------------------
(* question_bank.py: the catalog store.  A Question object is a record of   *)
(* its ten fields; type and difficulty hold an Enum member, written by its  *)
(* name.  The file holds the list of dictionaries json.dump writes          *)
(* (questions_data); NoFile is the path at which no file exists.            *)
(* self.questions is a dictionary keyed by question_id: a list of Question  *)
(* objects in insertion order, no two with the same id.                     *)

None == "<None>"
NoFile == [exists |-> FALSE, questions_data |-> <<>>]

QuestionTypeMembers == {"MULTIPLE_CHOICE", "CODING", "CONCEPTUAL", "PRACTICAL"}
DifficultyLevelMembers == {"BEGINNER", "INTERMEDIATE", "ADVANCED", "EXPERT"}

(* Enum.name, as save_questions would write it were it to use the name *)
name(member) == member

(* Enum.value: the string tag of a member (data_models.py) *)
value(member) ==
    CASE member = "MULTIPLE_CHOICE" -> "multiple_choice"
      [] member = "CODING"          -> "coding"
      [] member = "CONCEPTUAL"      -> "conceptual"
      [] member = "PRACTICAL"       -> "practical"
      [] member = "BEGINNER"        -> "beginner"
      [] member = "INTERMEDIATE"    -> "intermediate"
      [] member = "ADVANCED"        -> "advanced"
      [] member = "EXPERT"          -> "expert"

(* QuestionType(tag), DifficultyLevel(tag): the member of that value;       *)
(* ValueError when there is none                                            *)
HasMember(members, tag) == \E member \in members : value(member) = tag
MemberOf(members, tag) == CHOOSE member \in members : value(member) = tag

(* dict.get(key): None for a key the dictionary does not hold *)
get(q_data, key) == IF key \in DOMAIN q_data THEN q_data[key] ELSE None

(* "if question.expected_answer:" - None and the empty string are false *)
Truthy(v) == v \notin {None, ""}

With(q_data, key, v) == IF Truthy(v) THEN Put(q_data, key, v) ELSE q_data

(* save_questions, lines 313-327: the dictionary written for one question *)
QuestionData(question) ==
    With(With([question_id |-> question.question_id,
               text        |-> question.text,
               type        |-> value(question.type),
               difficulty  |-> value(question.difficulty),
               category    |-> question.category,
               topics      |-> question.topics,
               time_limit  |-> question.time_limit,
               points      |-> question.points],
              "expected_answer", question.expected_answer),
         "code_template", question.code_template)

(* save_questions: the file after the call.  The whole method sits in       *)
(* try/except Exception: when the file cannot be opened the error is        *)
(* logged and the file is left as it was.                                   *)
save_questions(bank, file, disk_ok) ==
    IF disk_ok
    THEN [exists |-> TRUE,
          questions_data |-> [i \in 1..Len(bank) |-> QuestionData(bank[i])]]
    ELSE file

(* self.questions[question.question_id] = question *)
Store(bank, question) ==
    IF \E i \in 1..Len(bank) : bank[i].question_id = question.question_id
    THEN [i \in 1..Len(bank) |->
            IF bank[i].question_id = question.question_id THEN question ELSE bank[i]]
    ELSE Append(bank, question)

(* load_questions, lines 43-55: Question(...) from one dictionary of the file *)
QuestionOf(q_data) ==
    [question_id     |-> q_data.question_id,
     text            |-> q_data.text,
     type            |-> MemberOf(QuestionTypeMembers, q_data.type),
     difficulty      |-> MemberOf(DifficultyLevelMembers, q_data.difficulty),
     category        |-> q_data.category,
     topics          |-> q_data.topics,
     expected_answer |-> get(q_data, "expected_answer"),
     code_template   |-> get(q_data, "code_template"),
     time_limit      |-> q_data.time_limit,
     points          |-> q_data.points]

RECURSIVE LoadData(_, _)
(* the loop of load_questions: it stops at the first dictionary whose type  *)
(* or difficulty is no tag of the enumeration, with the questions stored    *)
(* before it                                                                *)
LoadData(bank, questions_data) ==
    IF questions_data = <<>>
    THEN [questions |-> bank, error |-> "none"]
    ELSE IF /\ HasMember(QuestionTypeMembers, Head(questions_data).type)
            /\ HasMember(DifficultyLevelMembers, Head(questions_data).difficulty)
    THEN LoadData(Store(bank, QuestionOf(Head(questions_data))), Tail(questions_data))
    ELSE [questions |-> bank, error |-> "ValueError"]

(* load_questions on a new QuestionBank.  FileNotFoundError and every       *)
(* other exception end in create_default_questions: the bank then holds     *)
(* the default questions (created_default) after those read so far.         *)
load_questions(file) ==
    IF ~file.exists
    THEN [questions |-> <<>>, error |-> "FileNotFoundError", created_default |-> TRUE]
    ELSE [questions       |-> LoadData(<<>>, file.questions_data).questions,
          error           |-> LoadData(<<>>, file.questions_data).error,
          created_default |-> LoadData(<<>>, file.questions_data).error # "none"]

(* The catalogs saved: up to MaxCatalog questions of distinct ids. *)
CatalogIds == <<"q1", "q2">>

CatalogQuestion(question_id, type, difficulty, expected_answer) ==
    [question_id     |-> question_id,
     text            |-> "What is overfitting?",
     type            |-> type,
     difficulty      |-> difficulty,
     category        |-> "machine_learning",
     topics          |-> <<"overfitting", "regularization">>,
     expected_answer |-> expected_answer,
     code_template   |-> IF type = "CODING" THEN "def solve():" ELSE None,
     time_limit      |-> 10,
     points          |-> 15]

ExpectedAnswerInputs == {None, "", "Should mention regularization"}

CatalogQuestions(question_id) ==
    {CatalogQuestion(question_id, type, difficulty, expected_answer) :
        type \in QuestionTypeMembers, difficulty \in DifficultyLevelMembers,
        expected_answer \in ExpectedAnswerInputs}

Catalogs ==
    UNION {{[i \in 1..n |-> pick[i]] :
              pick \in [1..n -> UNION {CatalogQuestions(CatalogIds[i]) : i \in 1..n}]}
           : n \in 0..MaxCatalog}

DistinctIds(bank) ==
    \A i, j \in 1..Len(bank) : bank[i].question_id = bank[j].question_id => i = j

InitCatalog ==
    /\ Init
    /\ questions = DefaultQuestions

BuildBank ==
    /\ last_result.op = "none"
    /\ \E bank \in Catalogs :
          /\ DistinctIds(bank)
          /\ last_result' = [op |-> "bank", session_id |-> 0, pc |-> "returned",
                              bank |-> bank, file |-> NoFile]
    /\ UNCHANGED <<questions, active_sessions, session_data, monitor_data,
                   session_logs, next_id, timed_out, calls>>

SaveQuestions ==
    /\ last_result.op = "bank"
    /\ \E disk_ok \in BOOLEAN :
          last_result' = [op |-> "save_questions", session_id |-> 0, pc |-> "returned",
                          bank |-> last_result.bank, saved |-> disk_ok,
                          file |-> save_questions(last_result.bank, last_result.file, disk_ok)]
    /\ UNCHANGED <<questions, active_sessions, session_data, monitor_data,
                   session_logs, next_id, timed_out, calls>>

LoadQuestions ==
    /\ last_result.op = "save_questions"
    /\ last_result' = [op |-> "load_questions", session_id |-> 0, pc |-> "returned",
                       bank |-> last_result.bank, saved |-> last_result.saved,
                       file |-> last_result.file,
                       loaded |-> load_questions(last_result.file)]
    /\ UNCHANGED <<questions, active_sessions, session_data, monitor_data,
                   session_logs, next_id, timed_out, calls>>

NextCatalog == BuildBank \/ SaveQuestions \/ LoadQuestions

SpecCatalog == InitCatalog /\ [][NextCatalog]_vars

----------------------------------------------------------------------------
(* integrity_monitor.py: IntegrityMonitor._analyze_timing_integrity, on its *)
(* own.  time_taken is in whole seconds; complexity is what                 *)
(* _estimate_question_complexity returns for the question text (1 to 5).    *)

TimeInputs == {0, 1, 4, 5, 6, 9, 10, 11, 30, 60, 120, 300, 599, 600, 601, 1800, 1801, 3600}
ComplexityInputs == 1..5

InitTiming ==
    /\ Init
    /\ questions = DefaultQuestions

GiveTiming ==
    /\ last_result.op = "none"
    /\ \E time_taken \in TimeInputs, complexity \in ComplexityInputs :
          last_result' = [op |-> "answer", session_id |-> 0, pc |-> "returned",
                          time_taken |-> time_taken, complexity |-> complexity]
    /\ UNCHANGED <<questions, active_sessions, session_data, monitor_data,
                   session_logs, next_id, timed_out, calls>>

AnalyzeTiming ==
    /\ last_result.op = "answer"
    /\ last_result' = [op |-> "_analyze_timing_integrity", session_id |-> 0,
                       pc |-> "returned",
                       time_taken |-> last_result.time_taken,
                       complexity |-> last_result.complexity,
                       result |-> _analyze_timing_integrity(last_result.time_taken,
                                                            last_result.complexity)]
    /\ UNCHANGED <<questions, active_sessions, session_data, monitor_data,
                   session_logs, next_id, timed_out, calls>>

NextTiming == GiveTiming \/ AnalyzeTiming

SpecTiming == InitTiming /\ [][NextTiming]_vars

----------------------------------------------------------------------------
(* Properties *)

(* the per-answer overall integrity scores a session holds *)
OverallScores(sd) ==
    [i \in 1..Len(sd.integrity_metrics) |-> sd.integrity_metrics[i].overall_integrity_score]

(* C1: no two answers of a session reference the same question id, and the *)
(* question a session asks next has not been answered in it before,         *)
(* whatever target_categories list the session was started with.            *)
C1_NoQuestionAskedTwice ==
    \A session_id \in active_sessions :
        LET session == session_data[session_id] IN
        /\ \A i, j \in 1..Len(session.answers) :
               i # j => session.answers[i].question_id # session.answers[j].question_id
        /\ \A i \in 1..Len(session.answers) :
               session.answers[i].question_id # session.current_question

(* C2: after every submit_answer the session's integrity_score is the mean *)
(* of the overall integrity scores of all answers submitted so far in the   *)
(* session (score * number of answers = sum of the per-answer scores).      *)
C2_IntegrityScoreIsMean ==
    \A session_id \in active_sessions :
        LET session == session_data[session_id] IN
        session.integrity_metrics # <<>> =>
            session.integrity_score * Len(session.integrity_metrics)
                = SumSeq(OverallScores(session))

(* C3: the number of answers recorded in a session never exceeds           *)
(* max_questions_per_session, neither while the session is active nor in   *)
(* the report it ends with.                                                *)
C3_AnswersWithinMaximum ==
    /\ \A session_id \in active_sessions :
           Len(session_data[session_id].answers) <= max_questions_per_session
    /\ last_result.result.report # <<>> =>
           Len(last_result.result.report.question_results) <= max_questions_per_session

(* a session that has ended with max_questions_per_session answers *)
C3_Witness ==
    /\ last_result.op = "submit_answer"
    /\ last_result.result.session_complete
    /\ last_result.result.report # <<>>
    /\ Len(last_result.result.report.question_results) = max_questions_per_session

(* the sessions a submit_answer call has ended *)
Ended == {session_id \in 1..next_id : ~session_data[session_id].is_active}

(* C4: a terminated session is never resurrected.  Once a call has ended a *)
(* session its is_active flag stays false and it stays out of the           *)
(* registry; every later submit_answer or get_session_status for its id    *)
(* raises session-not-found and leaves the state of the engine, of the      *)
(* monitor and of the audit log as it was.                                  *)
C4_TerminatedStaysTerminated ==
    /\ [](\A session_id \in Ended :
            /\ session_id \notin active_sessions
            /\ get_session_status(Engine, session_id).pc = "raised"
            /\ get_session_status(Engine, session_id).result.error = "SessionNotFound"
            /\ \A a \in AnswerInputs, disk_ok \in BOOLEAN :
                  LET r == submit_answer(Engine, NewCall(session_id, a, disk_ok)) IN
                  /\ r.c.pc = "raised"
                  /\ r.c.result.error = "SessionNotFound"
                  /\ r.E = Engine)
    /\ [][\A session_id \in Ended :
            /\ ~session_data'[session_id].is_active
            /\ session_id \notin active_sessions'
            /\ (/\ last_result' # last_result
                /\ last_result'.session_id = session_id
                /\ last_result'.op \in {"submit_answer", "get_session_status"})
               => /\ last_result'.pc = "raised"
                  /\ last_result'.result.error = "SessionNotFound"
                  /\ UNCHANGED <<active_sessions, session_data, monitor_data,
                                 session_logs>>]_vars

(* a submit_answer for a session that an earlier call has ended *)
C4_Witness ==
    /\ last_result.op = "submit_answer"
    /\ last_result.session_id \in Ended
    /\ last_result.pc = "raised"
    /\ last_result.result.error = "SessionNotFound"

(* C5: concurrent submit_answer calls on one session are serialized: a     *)
(* call that has passed the precondition checks does not fail because the   *)
(* other call ended and removed the session, and two calls in flight never  *)
(* both record an answer to the same pending question.                      *)
C5_SubmitsSerialized ==
    /\ \A t \in Threads :
          calls[t].pc = "raised" => calls[t].current_question = NoQuestion
    /\ \A t1, t2 \in Threads :
          (/\ t1 # t2
           /\ calls[t1].pc \in {"log", "decide", "report", "end"}
           /\ calls[t2].pc \in {"log", "decide", "report", "end"}
           /\ calls[t1].session_id = calls[t2].session_id)
          => calls[t1].current_question # calls[t2].current_question

(* C6: across one submit_answer call the difficulty_level of a session     *)
(* moves by at most one position in beginner < intermediate < advanced <   *)
(* expert, and in every reachable state it is one of those four values.     *)
C6_DifficultyMovesOneTier ==
    /\ [](\A session_id \in active_sessions :
            session_data[session_id].difficulty_level \in DifficultyLevel)
    /\ [][\A session_id \in active_sessions \cap active_sessions' :
            Abs(DifficultyIndex(session_data'[session_id].difficulty_level)
                - DifficultyIndex(session_data[session_id].difficulty_level)) <= 1]_vars

(* a session that has climbed to the top tier and has been answered there *)
C6_Witness ==
    \E session_id \in active_sessions :
        /\ session_data[session_id].difficulty_level = "expert"
        /\ \E i \in 1..Len(session_data[session_id].performance_history) :
              session_data[session_id].performance_history[i].difficulty = "expert"

(* C7: score-band termination.  For every submit_answer that records its   *)
(* answer: if the session then holds at least min_questions_per_session     *)
(* answers and the mean of the last three scores is below 30 or above 90,   *)
(* the call ends the session; if it holds fewer, the call ends the session  *)
(* only when the session has timed out or no next question can be found.    *)
C7_ScoreBandEndsSession ==
    \A session_id \in active_sessions, a \in AnswerInputs :
        LET recorded == RunTo(Engine, NewCall(session_id, a, TRUE), "decide")
            r == submit_answer(Engine, NewCall(session_id, a, TRUE))
            sd == recorded.E.session_data[session_id]
            n == Len(sd.answers)
            scores == LastN([i \in 1..n |-> sd.answers[i].score], 3)
            in_band == \/ SumSeq(scores) < 30 * Len(scores)
                       \/ SumSeq(scores) > 90 * Len(scores)
        IN  recorded.c.pc = "decide" =>
              /\ r.c.pc = "returned"
              /\ r.c.result.session_complete <=> session_id \notin r.E.active_sessions
              /\ (n >= min_questions_per_session /\ in_band)
                     => r.c.result.session_complete
              /\ (n < min_questions_per_session /\ r.c.result.session_complete)
                     => \/ session_id \in timed_out
                        \/ _select_next_question(sd).question = NoQuestion

(* a session ended by the score band, short of the maximum and in time *)
C7_Witness ==
    /\ last_result.op = "submit_answer"
    /\ last_result.result.session_complete
    /\ last_result.result.report # <<>>
    /\ last_result.session_id \notin timed_out
    /\ LET results == last_result.result.report.question_results
           scores == LastN([i \in 1..Len(results) |-> results[i].score], 3)
       IN  /\ Len(results) >= min_questions_per_session
           /\ Len(results) < max_questions_per_session
           /\ \/ SumSeq(scores) < 30 * Len(scores)
              \/ SumSeq(scores) > 90 * Len(scores)

(* C8: submit_answer on an unknown session id, or on a session with no     *)
(* pending question, raises an error and changes nothing: no answer is      *)
(* appended, the engine and the monitor keep their state, no audit entry    *)
(* is added.                                                                *)
C8_RejectedWithoutSideEffects ==
    \A session_id \in Ids, a \in AnswerInputs, disk_ok \in BOOLEAN :
        LET r == submit_answer(Engine, NewCall(session_id, a, disk_ok))
            unknown == session_id \notin active_sessions
            no_pending == /\ session_id \in active_sessions
                          /\ session_data[session_id].current_question = NoQuestion
        IN  /\ unknown => /\ r.c.pc = "raised"
                          /\ r.c.result.error = "SessionNotFound"
            /\ no_pending => /\ r.c.pc = "raised"
                             /\ r.c.result.error = "NoPendingQuestion"
            /\ (unknown \/ no_pending) => r.E = Engine

(* a rejected submission to a session that has no pending question *)
C8_Witness ==
    /\ last_result.op = "submit_answer"
    /\ last_result.pc = "raised"
    /\ last_result.result.error = "NoPendingQuestion"
    /\ last_result.session_id \in active_sessions

(* C9: a failure of the integrity analysis does not abort the submission:  *)
(* whenever the analysis of a submitted answer raises, submit_answer still  *)
(* returns and the answer is recorded in the session.                       *)
C9_AnalysisFailureDoesNotAbort ==
    \A session_id \in active_sessions, a \in AnswerInputs :
        LET session == session_data[session_id]
            answer == [question_id |-> session.current_question,
                       answer_text |-> a.answer_text,
                       time_taken |-> a.time_taken, score |-> 0]
            r == submit_answer(Engine, NewCall(session_id, a, TRUE))
        IN  (/\ session.current_question # NoQuestion
             /\ analyze_answer_integrity(monitor_data, session_id, answer,
                                         Question(session.current_question)).raised)
            => /\ r.c.pc = "returned"
               /\ Len(r.E.session_data[session_id].answers) = Len(session.answers) + 1

(* C10: a failing audit-log write is never surfaced and never leaves a     *)
(* session half-updated.  A submit_answer whose log writes fail ends as it  *)
(* does when they succeed, with the same engine, monitor and audit state    *)
(* and the same result; and a call that has appended its answer has made    *)
(* its decision: the next question is attached to the session, or the       *)
(* report is built and the session is ended.                                *)
C10_LogFailureChangesNothing ==
    \A session_id \in Ids, a \in AnswerInputs :
        LET failed == submit_answer(Engine, NewCall(session_id, a, FALSE))
            written == submit_answer(Engine, NewCall(session_id, a, TRUE))
            appended == /\ session_id \in active_sessions
                        /\ failed.E.session_data[session_id].answers
                               # session_data[session_id].answers
        IN  /\ failed.c.result.error # "AuditLogError"
            /\ failed.c.pc = written.c.pc
            /\ failed.E = written.E
            /\ [failed.c.result EXCEPT !.write_failures = 0] = written.c.result
            /\ appended =>
                  /\ failed.c.pc = "returned"
                  /\ IF failed.c.result.session_complete
                     THEN /\ failed.c.result.report # <<>>
                          /\ session_id \notin failed.E.active_sessions
                          /\ ~failed.E.session_data[session_id].is_active
                     ELSE /\ failed.c.result.next_question # NoQuestion
                          /\ failed.E.session_data[session_id].current_question
                                 = failed.c.result.next_question

(* a submission that was recorded and ended its session although none of   *)
(* its three audit entries reached the file                                 *)
C10_Witness ==
    /\ last_result.op = "submit_answer"
    /\ last_result.pc = "returned"
    /\ last_result.result.session_complete
    /\ last_result.result.write_failures = 3

(* C11: a failure of the type-specific rubric does not escape              *)
(* submit_answer.  Whenever the rubric raises on a submitted answer, the    *)
(* call returns a result, the answer is appended to the session with score  *)
(* 0 and a non-empty feedback string; and for every question of the bank    *)
(* and every answer the feedback string of the evaluation is non-empty.     *)
C11_RubricFailureIsContained ==
    /\ \A session_id \in active_sessions, a \in AnswerInputs :
          LET session == session_data[session_id]
              r == submit_answer(Engine, NewCall(session_id, a, TRUE))
              answers == r.E.session_data[session_id].answers
          IN  (/\ session.current_question # NoQuestion
               /\ a.time_taken # BadTime
               /\ RubricRaises(a, Question(session.current_question)))
              => /\ r.c.pc = "returned"
                 /\ r.c.result.answer_score = 0
                 /\ r.c.result.answer_feedback # ""
                 /\ Len(answers) = Len(session.answers) + 1
                 /\ answers[Len(answers)].score = 0
                 /\ answers[Len(answers)].feedback # ""
    /\ \A qid \in 1..Len(questions), a \in AnswerInputs :
          _evaluate_answer(a, Question(qid)).feedback # ""

(* C12: session timeout is lazy.  The passage of time alone changes        *)
(* nothing in the engine: a session older than the maximum duration stays   *)
(* in the registry with is_active true, get_session_status still answers    *)
(* for it, and only a submit_answer call for that session takes it out of   *)
(* the registry.  A submit_answer call that records its answer in such a    *)
(* session ends the session, whatever the answer and its score.             *)
C12_TimeoutIsLazy ==
    /\ [](\A session_id \in active_sessions \cap timed_out :
            /\ session_data[session_id].is_active
            /\ get_session_status(Engine, session_id).pc = "returned"
            /\ get_session_status(Engine, session_id).result.progress.is_active
            /\ \A a \in AnswerInputs, disk_ok \in BOOLEAN :
                  LET recorded == RunTo(Engine, NewCall(session_id, a, disk_ok), "decide")
                      r == submit_answer(Engine, NewCall(session_id, a, disk_ok))
                  IN  recorded.c.pc = "decide" =>
                        /\ Len(recorded.E.session_data[session_id].answers)
                              = Len(session_data[session_id].answers) + 1
                        /\ r.c.pc = "returned"
                        /\ r.c.result.session_complete
                        /\ session_id \notin r.E.active_sessions
                        /\ ~r.E.session_data[session_id].is_active)
    /\ [][/\ timed_out' # timed_out =>
               UNCHANGED <<active_sessions, session_data, monitor_data, session_logs>>
          /\ \A session_id \in active_sessions \cap timed_out :
               \/ /\ session_id \in active_sessions'
                  /\ session_data'[session_id].is_active
               \/ /\ last_result'.op = "submit_answer"
                  /\ last_result'.session_id = session_id
                  /\ last_result'.result.session_complete]_vars

(* a session that outlived the maximum duration, was still in the registry  *)
(* and was ended by the next answer, before the minimum number of questions *)
C12_Witness ==
    /\ last_result.op = "submit_answer"
    /\ last_result.session_id \in timed_out
    /\ last_result.result.session_complete
    /\ last_result.result.report # <<>>
    /\ Len(last_result.result.report.question_results) < min_questions_per_session
    /\ last_result.result.answer_score > 30

(* C13: at the end of every engine operation a session id is in the        *)
(* engine's registry exactly when the integrity monitor holds data for it,  *)
(* and then the monitor's answer history is as long as the session's        *)
(* answer list; after the submit_answer that ends a session its id is in    *)
(* neither store.                                                           *)
C13_RegistryMatchesMonitor ==
    /\ \A session_id \in Ids :
          session_id \in active_sessions <=> session_id \in DOMAIN monitor_data
    /\ \A session_id \in active_sessions \cap DOMAIN monitor_data :
          Len(monitor_data[session_id].answers) = Len(session_data[session_id].answers)
    /\ (last_result.op = "submit_answer" /\ last_result.result.session_complete)
          => /\ last_result.session_id \notin active_sessions
             /\ last_result.session_id \notin DOMAIN monitor_data

(* one session has been ended and released, a later one is being answered *)
C13_Witness ==
    /\ \E session_id \in Ended : session_id \notin DOMAIN monitor_data
    /\ \E session_id \in active_sessions :
          /\ Len(session_data[session_id].answers) >= 2
          /\ Len(monitor_data[session_id].answers) >= 2

(* the categories of a list that have a question in the bank *)
Stocked(target_categories) ==
    {category \in Range(target_categories) :
        \E qid \in 1..Len(questions) : questions[qid].category = category}

(* C14: on a non-empty catalog start_interview_session returns a session   *)
(* with a current question, whatever target_categories it is given          *)
(* (omitted or empty, or naming only categories that have no question),     *)
(* and the session starts at difficulty intermediate with no answers,       *)
(* integrity score 100 and is_active true.                                  *)
C14_StartGivesQuestion ==
    /\ [](questions # <<>> =>
            \A target_categories \in TargetLists :
                NewSessionData(_generate_initial_question_set(target_categories))
                    .current_question \in 1..Len(questions))
    /\ [][(/\ last_result'.op = "start_interview_session"
           /\ next_id' # next_id
           /\ questions # <<>>)
          => /\ last_result'.pc = "returned"
             /\ next_id' \in active_sessions'
             /\ session_data'[next_id'].current_question \in 1..Len(questions)
             /\ session_data'[next_id'].difficulty_level = "intermediate"
             /\ session_data'[next_id'].answers = <<>>
             /\ session_data'[next_id'].integrity_score = 100 * IntegrityScale
             /\ session_data'[next_id'].is_active]_vars

(* a session started on a non-empty catalog for categories that have no    *)
(* question                                                                *)
C14_Witness ==
    /\ last_result.op = "start_interview_session"
    /\ questions # <<>>
    /\ last_result.target_categories # <<>>
    /\ Stocked(last_result.target_categories) = {}
    /\ session_data[last_result.session_id].current_question # NoQuestion

(* C15: start_interview_session fails with CatalogExhausted and registers  *)
(* no session, neither in the engine nor in the integrity monitor, when     *)
(* none of the requested target categories has a question in the catalog.   *)
C15_CatalogExhausted ==
    (/\ last_result.op = "start_interview_session"
     /\ last_result.target_categories # <<>>
     /\ Stocked(last_result.target_categories) = {})
    => /\ last_result.pc = "raised"
       /\ last_result.result.error = "CatalogExhausted"
       /\ last_result.session_id \notin active_sessions
       /\ last_result.session_id \notin DOMAIN monitor_data

(* the reports generated for a session: one audit entry each *)
ReportsGenerated(session_id) ==
    Len(SelectSeq(session_logs[session_id],
                  LAMBDA e : e = "interview_report_generated"))

(* C16: a submit_answer that returns has one of two shapes: either         *)
(* session_complete is false, the next question is not None and is now the  *)
(* session's pending question, and there is no report; or session_complete  *)
(* is true, there is no next question and the result carries the report of  *)
(* the session.  Over the life of a session a report is generated exactly   *)
(* once, by the call that ends it.                                          *)
C16_TwoResultShapes ==
    /\ \A session_id \in active_sessions, a \in AnswerInputs, disk_ok \in BOOLEAN :
          LET r == submit_answer(Engine, NewCall(session_id, a, disk_ok))
              recorded == RunTo(Engine, NewCall(session_id, a, disk_ok), "decide")
          IN  r.c.pc = "returned" =>
                IF r.c.result.session_complete
                THEN /\ r.c.result.next_question = NoQuestion
                     /\ r.c.result.report
                            = InterviewReport(session_id,
                                              recorded.E.session_data[session_id])
                     /\ session_id \notin r.E.active_sessions
                ELSE /\ r.c.result.next_question # NoQuestion
                     /\ r.c.result.report = <<>>
                     /\ session_id \in r.E.active_sessions
                     /\ r.E.session_data[session_id].current_question
                            = r.c.result.next_question
    /\ \A session_id \in 1..next_id :
          ReportsGenerated(session_id) = IF session_id \in Ended THEN 1 ELSE 0
    /\ (last_result.op = "submit_answer" /\ last_result.pc = "returned")
          => (last_result.result.report # <<>>
                <=> last_result.result.session_complete)

(* the call that ended a session of several answers returned its report *)
C16_Witness ==
    /\ last_result.op = "submit_answer"
    /\ last_result.pc = "returned"
    /\ last_result.result.session_complete
    /\ last_result.result.next_question = NoQuestion
    /\ last_result.result.report # <<>>
    /\ last_result.result.report.session_id = last_result.session_id
    /\ Len(last_result.result.report.question_results) >= 2
    /\ ReportsGenerated(last_result.session_id) = 1

(* two texts that are equal once differences of letter case and of white   *)
(* space are ignored                                                       *)
SameModuloCaseAndWhitespace(text1, text2) ==
    [strip(lower(TextFeatures[text1].form)) EXCEPT !.wide = FALSE]
        = [strip(lower(TextFeatures[text2].form)) EXCEPT !.wide = FALSE]

(* C17: whenever the text of a submitted answer equals the text of an      *)
(* earlier answer of the session, differences of letter case and white      *)
(* space ignored, the metrics analyze_answer_integrity returns contain the  *)
(* flag consistency_repeated_answer and the consistency score of the        *)
(* answer is at most 65.                                                    *)
C17_RepeatedAnswerFlagged ==
    \A session_id \in active_sessions, a \in RepeatInputs :
        LET session == session_data[session_id]
            answer == [question_id |-> session.current_question,
                       answer_text |-> a.answer_text,
                       time_taken |-> a.time_taken, score |-> 0, feedback |-> ""]
            analysis == analyze_answer_integrity(monitor_data, session_id, answer,
                                                 Question(session.current_question))
        IN  (/\ session.current_question # NoQuestion
             /\ \E i \in 1..Len(monitor_data[session_id].answers) :
                   SameModuloCaseAndWhitespace(
                       monitor_data[session_id].answers[i].answer_text, a.answer_text))
            => /\ ~analysis.raised
               /\ "consistency_repeated_answer" \in Range(analysis.metrics.flags)
               /\ analysis.metrics.answer_consistency_score <= 65

(* C18: for a report whose domain scores and overall score lie in [0,100]  *)
(* every role-suitability score lies in [0,100], and best_fit_role is a     *)
(* role of greatest score: the first one in the order Data Scientist, ML    *)
(* Engineer, Agentic AI Developer, Data Analyst when several roles tie.     *)
C18_RoleSuitability ==
    last_result.op = "_assess_role_suitability" =>
        LET role_scores == last_result.result.role_scores
            roles == <<"Data Scientist", "ML Engineer", "Agentic AI Developer",
                       "Data Analyst">>
        IN  /\ Len(role_scores) = 4
            /\ \A i \in 1..4 : /\ role_scores[i].den > 0
                                /\ 0 <= role_scores[i].num
                                /\ role_scores[i].num <= 100 * role_scores[i].den
            /\ \E i \in 1..4 :
                  /\ last_result.result.best_fit_role = roles[i]
                  /\ last_result.result.best_fit_score = role_scores[i]
                  /\ \A j \in 1..4 :
                        role_scores[j].num * role_scores[i].den
                            <= role_scores[i].num * role_scores[j].den
                  /\ \A j \in 1..(i - 1) :
                        role_scores[j].num * role_scores[i].den
                            < role_scores[i].num * role_scores[j].den

(* two roles tie at the greatest score, which is not zero, and the earlier *)
(* of the two is the best fit                                              *)
C18_Witness ==
    /\ last_result.op = "_assess_role_suitability"
    /\ last_result.result.best_fit_score.num > 0
    /\ last_result.result.best_fit_role = "ML Engineer"
    /\ \E j \in 3..4 :
          last_result.result.role_scores[j].num * last_result.result.best_fit_score.den
              = last_result.result.best_fit_score.num * last_result.result.role_scores[j].den

(* the keywords "python", "pandas", "numpy" in lower case that a text holds *)
Holds(answer_text) ==
    {keyword \in {"python", "pandas", "numpy"} :
        \E word \in TextFeatures[answer_text].typed :
            keyword = word \/ (keyword = "python" /\ word = "Python")
                           \/ (keyword = "numpy" /\ word = "NumPy")}

(* C19: the multiple choice score is 100 times the fraction of the         *)
(* comma-separated expected keywords that occur in the lowercased answer    *)
(* text, so it lies in [0,100]; expected answer "python,pandas,numpy" with  *)
(* an answer that holds only python and pandas scores 2/3 * 100; a          *)
(* question with no expected answer scores 0.                               *)
C19_MultipleChoiceScore ==
    (last_result.op = "_evaluate_answer" /\ ~last_result.raised) =>
        LET items == last_result.question.expected_items
            exact == last_result.rubric.exact
            occurring == {i \in 1..Len(items) :
                             \/ items[i] = ""
                             \/ \E keyword \in Holds(last_result.a.answer_text) :
                                   \/ items[i] = keyword
                                   \/ items[i] = "Python" /\ keyword = "python"
                                   \/ items[i] = "NumPy" /\ keyword = "numpy"
                                   \/ items[i] = " Pandas " /\ keyword = "pandas"}
        IN  /\ exact.den > 0
            /\ 0 <= exact.num /\ exact.num <= 100 * exact.den
            /\ items = <<>> => exact.num = 0
            /\ items # <<>> =>
                  exact.num * Len(items) = 100 * Cardinality(occurring) * exact.den
            /\ (/\ items = <<"python", "pandas", "numpy">>
                /\ Holds(last_result.a.answer_text) = {"python", "pandas"})
               => 3 * exact.num = 200 * exact.den
            /\ last_result.result.score = exact.num \div exact.den
            /\ last_result.result.score \in 0..100

(* the example: expected "python,pandas,numpy", the answer holds python    *)
(* (typed with a capital) and pandas                                       *)
C19_Witness ==
    /\ last_result.op = "_evaluate_answer"
    /\ ~last_result.raised
    /\ last_result.question.expected_items = <<"python", "pandas", "numpy">>
    /\ last_result.a.answer_text = "choice_two"
    /\ last_result.result.score = 66

(* C20: experience scoring separates candidates at 80.  For every          *)
(* required_experience > 0 a resume whose experience equals or exceeds the  *)
(* requirement scores strictly more than 80, and a resume whose experience  *)
(* is below the requirement scores strictly less than 80.                   *)
C20_ExperienceSeparatesAt80 ==
    (/\ last_result.op = "_calculate_experience_score"
     /\ last_result.required_experience > 0)
    => LET score == last_result.result IN
       IF last_result.resume_experience >= last_result.required_experience
       THEN score.num > 80 * score.den
       ELSE score.num < 80 * score.den

RoundTripFields ==
    {"question_id", "text", "type", "difficulty", "category", "topics",
     "time_limit", "points"}

(* C21: question round trip.  Saving the catalog with save_questions and   *)
(* loading it back with load_questions reproduces, for every question,      *)
(* identical question_id, text, type, difficulty, category, topics,         *)
(* time_limit and points (the questions in the same order, no default       *)
(* question in their place), and the file holds type and difficulty as      *)
(* their string tags.                                                       *)
C21_QuestionRoundTrip ==
    (last_result.op = "load_questions" /\ last_result.saved)
    => /\ ~last_result.loaded.created_default
       /\ Len(last_result.loaded.questions) = Len(last_result.bank)
       /\ \A i \in 1..Len(last_result.bank) :
            /\ \A field \in RoundTripFields :
                 last_result.loaded.questions[i][field] = last_result.bank[i][field]
            /\ last_result.file.questions_data[i].type \in QuestionType
            /\ last_result.file.questions_data[i].difficulty \in DifficultyLevel

(* a catalog of two questions, one of them with an empty expected_answer,   *)
(* saved and loaded                                                         *)
C21_Witness ==
    /\ last_result.op = "load_questions"
    /\ last_result.saved
    /\ Len(last_result.bank) = MaxCatalog
    /\ last_result.bank[1].type # last_result.bank[2].type
    /\ last_result.bank[1].expected_answer = ""
    /\ last_result.loaded.questions[1].expected_answer = None

(* the tier the adaptation rule names: one up for a mean above 85 below    *)
(* the top tier, one down for a mean below 40 above the bottom tier, else   *)
(* the tier as it was; the mean is total / n                                *)
AdaptedTier(difficulty, total, n) ==
    IF total > 85 * n /\ difficulty # "expert"
    THEN DifficultyOrder[DifficultyIndex(difficulty) + 1]
    ELSE IF total < 40 * n /\ difficulty # "beginner"
    THEN DifficultyOrder[DifficultyIndex(difficulty) - 1]
    ELSE difficulty

RecentScores(sd) ==
    LastN([i \in 1..Len(sd.performance_history) |-> sd.performance_history[i].score], 3)

(* C22: difficulty adaptation.  Whenever a submit_answer call continues    *)
(* the session, the session's difficulty after the call is one tier higher  *)
(* than before if the mean of the last up-to-3 scores is above 85 and the   *)
(* previous tier is not expert, one tier lower if that mean is below 40 and *)
(* the previous tier is not beginner, and unchanged otherwise.              *)
C22_DifficultyAdaptation ==
    \A session_id \in active_sessions, a \in AnswerInputs :
        LET r == submit_answer(Engine, NewCall(session_id, a, TRUE))
        IN  (r.c.pc = "returned" /\ ~r.c.result.session_complete)
            => r.E.session_data[session_id].difficulty_level
                 = AdaptedTier(session_data[session_id].difficulty_level,
                               SumSeq(RecentScores(r.E.session_data[session_id])),
                               Len(RecentScores(r.E.session_data[session_id])))

(* the questions of a list of ids that the session has not asked yet *)
Unasked(sd, qids) == SelectSeq(qids, LAMBDA qid : qid \notin Range(sd.asked_questions))

(* sd is the session when the next action is decided: the three sources of  *)
(* the next question are all empty                                          *)
NoQuestionLeft(sd, new_difficulty, weak_categories) ==
    /\ weak_categories # <<>>
          => Unasked(sd, get_questions_by_category(weak_categories[1], new_difficulty)) = <<>>
    /\ Unasked(sd, get_questions_by_difficulty(new_difficulty)) = <<>>
    /\ sd.remaining_questions = <<>>

(* C23: next-question selection falls through its sources in order.  A     *)
(* submit_answer call ends the session for lack of a question (the maximum  *)
(* is not reached, the session has not timed out, the score band does not   *)
(* end it) only if there is no unasked question in the weakest category at  *)
(* the new difficulty tier, no unasked question at the new difficulty tier  *)
(* anywhere in the catalog, and no question left in the initial set.        *)
C23_EndsOnlyWhenNoQuestionLeft ==
    \A session_id \in active_sessions \ timed_out, a \in AnswerInputs :
        LET recorded == RunTo(Engine, NewCall(session_id, a, TRUE), "decide")
            r == submit_answer(Engine, NewCall(session_id, a, TRUE))
            sd == recorded.E.session_data[session_id]
        IN  (/\ recorded.c.pc = "decide"
             /\ r.c.pc = "returned"
             /\ r.c.result.session_complete
             /\ ~MaximumReached(Len(sd.performance_history))
             /\ ~ScoreBandReached(Len(sd.performance_history), RecentScores(sd)))
            => NoQuestionLeft(sd,
                   _adjust_difficulty(sd.difficulty_level, SumSeq(RecentScores(sd)),
                                      Len(RecentScores(sd))),
                   _identify_weak_categories(sd.category_performance))

(* the monitor's history of a session: the overall scores stored *)
HistoryScores(session) ==
    [i \in 1..Len(session.answers) |-> session.answers[i].integrity_score]

(* the three component scores of the i-th answer of a history, computed     *)
(* again from the stored answer and the answers stored before it            *)
ComponentTotal(session, i) ==
    _analyze_text_integrity(session.answers[i].answer_text).score
    + _analyze_timing_integrity(session.answers[i].time_taken,
          Question(session.answers[i].question_id).complexity).score
    + _analyze_answer_consistency(session.answers[i].answer_text,
          SubSeq(session.answers, 1, i - 1)).score

IsPrefix(s, t) == Len(s) <= Len(t) /\ SubSeq(t, 1, Len(s)) = s

(* C24: the integrity monitor's running score is a cumulative mean over an  *)
(* append-only history.  For every monitored session,                       *)
(* current_integrity_score is the arithmetic mean of the overall scores of  *)
(* all answers analyzed so far (100 before any answer); every overall       *)
(* score is the unweighted mean of the text, timing and consistency scores  *)
(* and lies in [0, 100]; and whatever the engine does next, the history the *)
(* monitor held for the session is a prefix of the history it holds then.   *)
C24_RunningIntegrityMean ==
    /\ [](\A session_id \in DOMAIN monitor_data :
            LET session == monitor_data[session_id] IN
            /\ session.answers = <<>> =>
                  session.current_integrity_score.num
                      = 100 * IntegrityScale * session.current_integrity_score.den
            /\ session.answers # <<>> =>
                  session.current_integrity_score.num * Len(session.answers)
                      = SumSeq(HistoryScores(session)) * session.current_integrity_score.den
            /\ \A i \in 1..Len(session.answers) :
                  /\ session.answers[i].integrity_score = ComponentTotal(session, i)
                  /\ session.answers[i].integrity_score \in 0..(100 * IntegrityScale))
    /\ [][\A session_id \in DOMAIN monitor_data \cap DOMAIN monitor_data' :
            IsPrefix(monitor_data[session_id].answers, monitor_data'[session_id].answers)]_vars

(* a monitored history of three answers of different overall scores, the    *)
(* running score being their mean and not the latest score                  *)
C24_Witness ==
    \E session_id \in DOMAIN monitor_data :
        LET session == monitor_data[session_id] IN
        /\ Len(session.answers) >= 3
        /\ session.answers[1].integrity_score # session.answers[2].integrity_score
        /\ session.current_integrity_score.num
              # session.answers[Len(session.answers)].integrity_score
                  * session.current_integrity_score.den

(* the points a timing result has lost to the two fast-answer rules: what   *)
(* is missing from 100 beyond the 15 points of the complexity rule          *)
FastAnswerLoss(result) ==
    100 - result.score
        - (IF "timing_unexpected_for_complexity" \in Range(result.flags) THEN 15 ELSE 0)

(* C25: timing integrity applies both fast-answer penalties to very fast    *)
(* answers.  An answer taking less than 5 seconds loses the 40 points of    *)
(* the suspiciously-fast floor and the additional 20 points of the softer   *)
(* floor, with both timing flags set; an answer taking at least 5 but less  *)
(* than 10 seconds loses only the 40 points.                                *)
C25_BothFastPenalties ==
    last_result.op = "_analyze_timing_integrity" =>
        /\ last_result.time_taken < min_answer_time =>
              /\ FastAnswerLoss(last_result.result) = 60
              /\ "timing_suspiciously_fast" \in Range(last_result.result.flags)
              /\ "timing_too_fast" \in Range(last_result.result.flags)
        /\ (/\ last_result.time_taken >= min_answer_time
             /\ last_result.time_taken < suspiciously_fast) =>
              /\ FastAnswerLoss(last_result.result) = 40
              /\ "timing_suspiciously_fast" \in Range(last_result.result.flags)
              /\ "timing_too_fast" \notin Range(last_result.result.flags)

(* the answer-submission entries of an audit trail *)
Submissions(log) == SelectSeq(log, LAMBDA e : e = "answer_submission")

(* an audit trail of the fixed shape: the session-start entry, then the    *)
(* answer-submission entries, then closing entries that are neither         *)
TrailShape(log, closing) ==
    /\ Len(log) = 1 + Len(Submissions(log)) + closing
    /\ log[1] = "interview_session_start"
    /\ \A i \in 2..(1 + Len(Submissions(log))) : log[i] = "answer_submission"
    /\ \A i \in (2 + Len(Submissions(log)))..Len(log) :
          log[i] \notin {"interview_session_start", "answer_submission"}

(* C26: the audit trail of every session has a fixed shape.  The engine    *)
(* writes one session-start entry, then exactly one answer-submission entry *)
(* per accepted answer, then exactly one additional entry when the session  *)
(* terminates, and nothing for that session afterwards.                     *)
C26_AuditTrailShape ==
    \A session_id \in 1..next_id :
        /\ session_id \in active_sessions =>
              /\ TrailShape(session_logs[session_id], 0)
              /\ Len(Submissions(session_logs[session_id]))
                    = Len(session_data[session_id].answers)
        /\ session_id \notin active_sessions =>
              TrailShape(session_logs[session_id], 1)

(* the weighted blend of a role, times 10 * c * p for c critical and p      *)
(* preferred domains: 4 * (critical total / c) + 2 * (preferred total / p)  *)
(* + 4 * (overall_score if it meets min_overall_score, else 0), a domain    *)
(* missing from the report counted as 0                                     *)
BlendTimes(report, requirements, c, p) ==
    4 * p * DomainPoints(report, requirements.critical_domains, 1)
    + 2 * c * DomainPoints(report, requirements.preferred_domains, 1)
    + 4 * c * p * (IF report.overall_score >= requirements.min_overall_score
                   THEN report.overall_score ELSE 0)

(* C27: each role-suitability score is the weighted blend 40% x (average   *)
(* of the role's critical-domain scores) + 20% x (average of the role's     *)
(* preferred-domain scores) + 40% x (overall score if it meets the role's   *)
(* minimum overall score, else 0), a domain missing from the report         *)
(* counted as 0.                                                            *)
C27_RoleScoreIsBlend ==
    last_result.op = "_assess_role_suitability" =>
        \A i \in 1..Len(role_requirements) :
            last_result.result.role_scores[i].num
                * 10 * Len(role_requirements[i].critical_domains)
                * Len(role_requirements[i].preferred_domains)
            = last_result.result.role_scores[i].den
                * BlendTimes(last_result.report, role_requirements[i],
                             Len(role_requirements[i].critical_domains),
                             Len(role_requirements[i].preferred_domains))

(* C28: low integrity is always visible in the final outputs.  For every   *)
(* InterviewReport the engine generates, if the session's integrity score   *)
(* (0-100 scale) is below 70 then the report's compliance_summary           *)
(* overall_status is 'flagged' rather than 'compliant'; and the monitor's   *)
(* get_session_integrity_report for a session whose running score is below  *)
(* 70 gives risk_level HIGH.                                                *)
C28_LowIntegrityIsVisible ==
    /\ (/\ last_result.op = "submit_answer"
         /\ last_result.pc = "returned"
         /\ last_result.result.session_complete
         /\ last_result.result.report.compliance_summary.integrity_score
               < 70 * IntegrityScale)
        => last_result.result.report.compliance_summary.overall_status = "flagged"
    /\ \A session_id \in DOMAIN monitor_data :
          monitor_data[session_id].current_integrity_score.num
              < 70 * IntegrityScale * monitor_data[session_id].current_integrity_score.den
          => get_session_integrity_report(monitor_data, session_id).risk_level = "HIGH"

(* The engine with other integrity results for a session: the session's    *)
(* integrity score and the integrity score of every history entry are v,    *)
(* the metrics list is empty, and the monitor holds no earlier answer and   *)
(* a browser event (record_browser_event) for the session.                  *)
OtherIntegrity(E, session_id, v) ==
    [E EXCEPT
        !.session_data[session_id].integrity_score = v,
        !.session_data[session_id].integrity_metrics = <<>>,
        !.session_data[session_id].performance_history =
            [i \in 1..Len(@) |-> [@[i] EXCEPT !.integrity_score = v]],
        !.monitor_data[session_id] =
            [initialize_session_monitoring EXCEPT
                !.integrity_flags = <<"browser_tab_switch">>]]

IntegrityAlternatives == {0, 100 * IntegrityScale}

(* The answers submitted to the two sessions: the answers of whole          *)
(* interviews, the repeated answers, and the fair answer and its            *)
(* re-cased copy typed in 8 seconds.                                        *)
IntegrityInputs ==
    LongInputs \cup RepeatInputs
    \cup { [answer_text |-> "fair",       time_taken |-> 8],
           [answer_text |-> "fair_cased", time_taken |-> 8] }

(* what a submit_answer call decides: the flag, the next question and the   *)
(* difficulty of the session after the call                                 *)
Decision(r, session_id) ==
    [session_complete |-> r.c.result.session_complete,
     next_question    |-> r.c.result.next_question,
     difficulty_level |-> r.E.session_data[session_id].difficulty_level]

(* the part of a session the decisions are taken from *)
DecisionInputs(sd) ==
    [current_question     |-> sd.current_question,
     difficulty_level     |-> sd.difficulty_level,
     remaining_questions  |-> sd.remaining_questions,
     asked_questions      |-> sd.asked_questions,
     category_performance |-> sd.category_performance,
     is_active            |-> sd.is_active,
     history |-> [i \in 1..Len(sd.performance_history) |->
                     [question_id |-> sd.performance_history[i].question_id,
                      score       |-> sd.performance_history[i].score,
                      time_taken  |-> sd.performance_history[i].time_taken]]]

SameScoreAndTime(a, a2, q) ==
    /\ _evaluate_answer(a, q).score = _evaluate_answer(a2, q).score
    /\ a.time_taken = a2.time_taken

(* C29: the engine's continuation decisions do not depend on integrity      *)
(* results.  Take a session and the same session with other integrity       *)
(* results (scores, metrics, monitor history, browser events), and submit   *)
(* to each an answer of the same score and the same elapsed time: the two   *)
(* calls return the same session_complete flag, the same next question and  *)
(* the same difficulty, and leave the two sessions equal in everything the  *)
(* next decision is taken from.  A low integrity score never ends a         *)
(* session early.                                                           *)
C29_DecisionsIgnoreIntegrity ==
    \A session_id \in active_sessions, a \in IntegrityInputs, a2 \in IntegrityInputs, v \in IntegrityAlternatives :
        LET r  == submit_answer(Engine, NewCall(session_id, a, TRUE))
            r2 == submit_answer(OtherIntegrity(Engine, session_id, v),
                                NewCall(session_id, a2, TRUE))
        IN  (/\ session_data[session_id].current_question # NoQuestion
             /\ SameScoreAndTime(a, a2, Question(session_data[session_id].current_question))
             /\ r.c.pc = "returned"
             /\ r2.c.pc = "returned")
            => /\ Decision(r, session_id) = Decision(r2, session_id)
               /\ DecisionInputs(r.E.session_data[session_id])
                     = DecisionInputs(r2.E.session_data[session_id])

(* two answers of different text and the same score, one repeating an      *)
(* earlier answer: the two calls give different integrity scores, one of    *)
(* them below 70, and both continue the session                             *)
C29_Witness ==
    \E session_id \in active_sessions, a \in IntegrityInputs, a2 \in IntegrityInputs :
        LET r  == submit_answer(Engine, NewCall(session_id, a, TRUE))
            r2 == submit_answer(OtherIntegrity(Engine, session_id, 0),
                                NewCall(session_id, a2, TRUE))
        IN  /\ Len(session_data[session_id].answers) >= 2
            /\ a.answer_text # a2.answer_text
            /\ SameScoreAndTime(a, a2, Question(session_data[session_id].current_question))
            /\ r.c.pc = "returned"
            /\ r2.c.pc = "returned"
            /\ ~r.c.result.session_complete
            /\ r.E.session_data[session_id].integrity_score < 70 * IntegrityScale
            /\ r2.E.session_data[session_id].integrity_score
                  # r.E.session_data[session_id].integrity_score

(* the session has been ended by a submit_answer call that returned its     *)
(* report                                                                   *)
Terminal(session_id) ==
    /\ session_id \in 1..next_id
    /\ session_id \notin active_sessions
    /\ ~session_data[session_id].is_active
    /\ last_result.op = "submit_answer"
    /\ last_result.session_id = session_id
    /\ last_result.pc = "returned"
    /\ last_result.result.session_complete

(* C30: every session terminates.  If the client keeps submitting an       *)
(* answer to the pending question, one call at a time, the session reaches  *)
(* its terminal state (report returned, session removed) after at most      *)
(* max_questions_per_session accepted submissions, whatever the scores,     *)
(* the catalog contents and the elapsed time.                               *)
C30_EverySessionTerminates ==
    (/\ 1 \in active_sessions
     /\ session_data[1].current_question # NoQuestion)
    ~> (/\ Terminal(1)
        /\ Len(last_result.result.report.question_results) <= max_questions_per_session)

(* a session ended by its fifteenth answer before its maximum duration *)
C30_Witness ==
    /\ next_id = 1
    /\ Terminal(1)
    /\ 1 \notin timed_out
    /\ Len(last_result.result.report.question_results) = max_questions_per_session
    /\ Len(Submissions(session_logs[1])) = max_questions_per_session

====
